---- MODULE Spec2Model ----
(***************************************************************************)
(* Model of the remote_dram key-value store driver                         *)
(* (tensorstore/kvstore/remote_dram/remote_dram_kvstore.{h,cc}).           *)
(*                                                                         *)
(* One server process and NumClients client processes, each with its own   *)
(* UcxManager singleton.  Every handler and every transport callback of    *)
(* the source is one action; every detached std::thread a handler spawns   *)
(* is a task that a later action runs.  The transport keeps the order of   *)
(* the messages of one endpoint and matches a message with the first       *)
(* posted receive whose tag agrees under the mask.                         *)
(*                                                                         *)
(* Left out: the transport failures inside Initialize, CreateListener,     *)
(* CreateClientEndpoint, PostServerReceive and PostWriteResponseReceive;   *)
(* the failed and the cancelled response sends of the server;              *)
(* the null-endpoint branches of WriteRemote and ReadRemote, which no      *)
(* driver that DoOpen returned can take; the transport events that the ten *)
(* ucp_worker_progress calls inside Shutdown would still deliver (the      *)
(* promises are resolved and the tables cleared before them, so they       *)
(* complete nothing).  A client issues no RPC after its manager was shut   *)
(* down.                                                                   *)
(***************************************************************************)
EXTENDS Integers, Sequences, FiniteSets, TLC

(***************************************************************************)
(* Bounds of the model                                                     *)
(***************************************************************************)
\* client processes that exist
NumClients == 2
\* RPCs one client issues: writes, reads, both together
MaxWrites == 1
MaxReads == 2
MaxOps == 2
\* writes the server process makes through its own server-mode driver
MaxLocalWrites == 1
\* RPCs a client issues where eventual resolution is checked
MaxLiveOps == 1
\* writes one client issues one after the other before it reads
MaxSeqWrites == 2
\* calls of Store and Remove the server process makes on its map
MaxStorageOps == 4
\* RPCs a client issues while a peer puts crafted messages on its connection
MaxWireOps == 1
\* messages such a peer puts on the connection
MaxCrafted == 1
\* longest key and longest value that are framed
MaxFrameLen == 2
\* calls of the driver's and the manager's entry points, over all processes
MaxCalls == 4

Clients == 1..NumClients
Srv == NumClients + 1
Procs == 1..(NumClients + 1)

\* Keys and values are byte strings (sequences of bytes).
Keys == {<<1>>, <<2>>}
Values == {<<>>, <<5>>}

(***************************************************************************)
(* Wire protocol constants (remote_dram_kvstore.h)                         *)
(***************************************************************************)
\* 0xDEADBEEF as <<high 16 bits, low 16 bits>>
MESSAGE_MAGIC_NUMBER == <<57005, 48879>>
UCX_TAG_WRITE_REQUEST == 4096
UCX_TAG_WRITE_RESPONSE == 4097
UCX_TAG_READ_REQUEST == 8192
UCX_TAG_READ_RESPONSE == 8193
UCX_TAG_MASK == 61440
WRITE_REQUEST == 1
WRITE_RESPONSE == 2
READ_REQUEST == 3
READ_RESPONSE == 4
\* sizeof(MessageHeader): packed 4+4+4+4+8+4 bytes
SizeofMessageHeader == 28
\* sizeof(ReadResponse) = sizeof(WriteResponse): header + uint32 status_code
SizeofResponse == 32
num_preposted_receives == 10
\* "1MB max sanity check" of ClientReceiveCallback
MaxValueLength == 1000000

(***************************************************************************)
(* Bit operations on naturals                                              *)
(***************************************************************************)
RECURSIVE BitXor(_, _)
BitXor(a, b) ==
  IF a = 0 THEN b
  ELSE IF b = 0 THEN a
  ELSE (((a % 2) + (b % 2)) % 2) + 2 * BitXor(a \div 2, b \div 2)

RECURSIVE BitAnd(_, _)
BitAnd(a, b) ==
  IF a = 0 \/ b = 0 THEN 0
  ELSE ((a % 2) * (b % 2)) + 2 * BitAnd(a \div 2, b \div 2)

\* The transport's tag match rule: (posted AND mask) = (message AND mask).
TagMatch(posted, mask, tag) == BitAnd(posted, mask) = BitAnd(tag, mask)

(***************************************************************************)
(* message_utils                                                           *)
(***************************************************************************)
\* A uint32 is <<high 16 bits, low 16 bits>>, so that the shift wraps at 32 bits.
Zero32 == <<0, 0>>

\* checksum = (checksum << 1) ^ byte, in uint32
ChecksumStep(c, b) ==
  <<((c[1] * 2) + (c[2] \div 32768)) % 65536, BitXor((c[2] * 2) % 65536, b)>>

RECURSIVE ChecksumFrom(_, _)
ChecksumFrom(c, bytes) ==
  IF bytes = <<>> THEN c
  ELSE ChecksumFrom(ChecksumStep(c, Head(bytes)), Tail(bytes))

CalculateChecksum(bytes) == ChecksumFrom(Zero32, bytes)

\* A message on the wire: the header fields, the status_code of a response, the
\* payload bytes after the header (and status_code), the transport tag and the
\* number of bytes the receiver is told it received.
Message(magic, type, klen, vlen, rid, cks, status, payload, tag, length) ==
  [magic_number |-> magic, type |-> type, key_length |-> klen,
   value_length |-> vlen, request_id |-> rid, checksum |-> cks,
   status_code |-> status, payload |-> payload, tag |-> tag, length |-> length]

VerifyMessageHeader(m, total_message_size) ==
  /\ m.magic_number = MESSAGE_MAGIC_NUMBER
  /\ m.type \in {WRITE_REQUEST, WRITE_RESPONSE, READ_REQUEST, READ_RESPONSE}
  /\ total_message_size >= SizeofMessageHeader + m.key_length + m.value_length

\* InitializeMessageHeader taking the checksum of the key bytes only.
InitializeMessageHeaderKeyChecksum(type, key_length, value_length, request_id, payload, tag) ==
  Message(MESSAGE_MAGIC_NUMBER, type, key_length, value_length, request_id,
          IF key_length + value_length > 0
            THEN CalculateChecksum(SubSeq(payload, 1, key_length))
            ELSE Zero32,
          0, payload, tag, SizeofMessageHeader + Len(payload))

\* The header InitializeMessageHeader writes in front of `payload`.
InitializeMessageHeader(type, key_length, value_length, request_id, payload, tag) ==
  Message(MESSAGE_MAGIC_NUMBER, type, key_length, value_length, request_id,
          IF key_length + value_length > 0
            THEN CalculateChecksum(SubSeq(payload, 1, key_length + value_length))
            ELSE Zero32,
          0, payload, tag, SizeofMessageHeader + Len(payload))

(***************************************************************************)
(* State                                                                   *)
(***************************************************************************)
VARIABLES
  \* UcxManager, one per process
  initialized, context, worker, listener, progress_task_running,
  pending_write_operations, pending_read_operations, active_requests,
  client_endpoints, client_side_endpoints, next_request_id,
  \* RemoteDramStorage of the server process
  storage,
  \* RemoteDramDriver of each process: "none", "server" or "client"
  driver,
  \* transport: connection requests at the listener, accepted connections,
  \* messages in flight, posted receives, sends whose callback has not run
  connReq, accepted, c2s, s2c, srvPosted, cliPosted, sends,
  \* detached threads that have not run yet
  regTasks, respTasks, postTasks, complTasks,
  \* the RPCs each process issued and what became of their futures; the ids
  \* GenerateRequestId returned, in order; the writes made in server mode
  ops, issued, localWrites,
  \* the calls of Store and Remove on the server's map, in the order the
  \* storage mutex serialized them
  storageLog,
  \* the messages a peer that does not run this driver put on a connection
  crafted,
  \* the calls of DoOpen, Write, CreateListener and CreateClientEndpoint each
  \* process made, with the status each returned
  callLog,
  \* the server's response sends that are in progress, each with its buffer
  srvSends,
  \* the WorkerProgressTask threads of each process that have not returned
  progress_threads,
  \* the listener handles each process created and has not destroyed
  listeners,
  \* mutex_ of each manager: the thread that holds it for good, if any, and
  \* the threads blocked on it
  mutex_,
  \* the server's PostServerReceive threads that have copied worker_ and
  \* released the mutex, with the handle each copied
  postHandles

mgrVars == <<initialized, context, worker, listener, progress_task_running,
             pending_write_operations, pending_read_operations, active_requests,
             client_endpoints, client_side_endpoints, next_request_id>>
netVars == <<connReq, accepted, c2s, s2c, srvPosted, cliPosted, sends>>
taskVars == <<regTasks, respTasks, postTasks, complTasks>>
resVars == <<progress_threads, listeners, mutex_, postHandles>>
vars == <<mgrVars, storage, driver, netVars, taskVars, ops, issued, localWrites, storageLog, crafted, callLog, srvSends, resVars>>

(***************************************************************************)
(* Futures                                                                 *)
(***************************************************************************)
\* What a future holds: "Pending", a write's status ("Ok", "Internal",
\* "Cancelled") or a ReadResult state ("Value" with its bytes, "Missing").
\* Missing is state kMissing with the generation StorageGeneration::NoValue(),
\* which the code always sets together.
Res(st, val) == [st |-> st, val |-> val]
Pending == Res("Pending", <<>>)
OkStatus == Res("Ok", <<>>)
InternalError == Res("Internal", <<>>)
CancelledError == Res("Cancelled", <<>>)
Missing == Res("Missing", <<>>)
ValueResult(v) == Res("Value", v)

\* Promise::SetResult on the promise of operation id: the first result
\* stands, every call is counted; `who` and `echo` record which caller set
\* the result and the request_id field of the response it had seen.
SetResult(o, id, result, who, echo) ==
  IF id \in DOMAIN o
    THEN [o EXCEPT ![id].fut = IF @.st = "Pending" THEN result ELSE @,
                   ![id].nres = @ + 1,
                   ![id].by = IF o[id].fut.st = "Pending" THEN who ELSE @,
                   ![id].echo = IF o[id].fut.st = "Pending" THEN echo ELSE @]
    ELSE o

(***************************************************************************)
(* RemoteDramStorage                                                       *)
(***************************************************************************)
\* Store that keeps the value a key already has (emplace instead of assignment).
StoreIfAbsent(s, key, value) ==
  [k \in (DOMAIN s) \cup {key} |-> IF k \in DOMAIN s THEN s[k] ELSE value]

\* Store that appends the new bytes to the value a key already has.
StoreAppend(s, key, value) ==
  [k \in (DOMAIN s) \cup {key} |->
     IF k = key THEN (IF k \in DOMAIN s THEN s[k] \o value ELSE value) ELSE s[k]]

\* Store: storage_[key] = value under the storage mutex.
Store(s, key, value) ==
  [k \in (DOMAIN s) \cup {key} |-> IF k = key THEN value ELSE s[k]]

Get(s, key) ==
  IF key \in DOMAIN s THEN [has_value |-> TRUE, value |-> s[key]]
                      ELSE [has_value |-> FALSE, value |-> <<>>]

Exists(s, key) == key \in DOMAIN s

\* Remove that reports the key but leaves it in the map.
RemoveKeepsKey(s, key) == [map |-> s, ret |-> key \in DOMAIN s]

\* Remove: storage_.erase(key) > 0.  Gives the map left and the value returned.
Remove(s, key) ==
  LET erased == IF key \in DOMAIN s THEN 1 ELSE 0
  IN [map |-> [k \in (DOMAIN s) \ {key} |-> s[k]], ret |-> erased > 0]

GetAllKeys(s) == DOMAIN s

GetKeyCount(s) == Cardinality(DOMAIN s)

\* One call on the map as storageLog records it.
LogEntry(op, key, value, ret) == [op |-> op, key |-> key, value |-> value, ret |-> ret]

(***************************************************************************)
(* Initial state: every UcxManager as constructed, nothing opened          *)
(***************************************************************************)
Init ==
  /\ initialized = [p \in Procs |-> FALSE]
  /\ context = [p \in Procs |-> FALSE]
  /\ worker = [p \in Procs |-> FALSE]
  /\ listener = [p \in Procs |-> FALSE]
  /\ progress_task_running = [p \in Procs |-> FALSE]
  /\ pending_write_operations = [p \in Procs |-> {}]
  /\ pending_read_operations = [p \in Procs |-> {}]
  /\ active_requests = [p \in Procs |-> 0]
  /\ client_endpoints = [p \in Procs |-> <<>>]
  /\ client_side_endpoints = [p \in Procs |-> <<>>]
  /\ next_request_id = [p \in Procs |-> 1]
  /\ storage = <<>>
  /\ driver = [p \in Procs |-> "none"]
  /\ connReq = {}
  /\ accepted = {}
  /\ c2s = [c \in Clients |-> <<>>]
  /\ s2c = [c \in Clients |-> <<>>]
  /\ srvPosted = 0
  /\ cliPosted = [c \in Clients |-> <<>>]
  /\ sends = [c \in Clients |-> {}]
  /\ regTasks = {}
  /\ respTasks = {}
  /\ postTasks = 0
  /\ complTasks = [c \in Clients |-> {}]
  /\ ops = [p \in Procs |-> <<>>]
  /\ issued = [p \in Procs |-> <<>>]
  /\ localWrites = 0
  /\ storageLog = <<>>
  /\ crafted = <<>>
  /\ callLog = [p \in Procs |-> <<>>]
  /\ srvSends = {}
  /\ progress_threads = [p \in Procs |-> 0]
  /\ listeners = [p \in Procs |-> 0]
  /\ mutex_ = [p \in Procs |-> [holder |-> "none", waiters |-> {}]]
  /\ postHandles = <<>>

(***************************************************************************)
(* UcxManager: lifecycle                                                   *)
(***************************************************************************)
\* The progress thread of p is polling: WorkerProgressTask runs the transport's
\* callbacks only while initialized_ and progress_task_running_ hold.
ProgressRunning(p) == initialized[p] /\ progress_task_running[p] /\ worker[p]

\* UcxManager::Initialize, with StartWorkerProgressTask: what it leaves in
\* <<initialized_, context_, worker_, progress_task_running_>>.
Initialize(p) ==
  IF initialized[p]
    THEN <<initialized[p], context[p], worker[p], progress_task_running[p]>>
    ELSE <<TRUE, TRUE, TRUE, TRUE>>

\* The progress threads one call of Initialize starts: none on an initialized
\* manager; otherwise StartWorkerProgressTask starts one unless
\* progress_task_running_ is set.
ThreadsStarted(is_initialized, is_running) ==
  IF is_initialized THEN 0 ELSE IF is_running THEN 0 ELSE 1

\* One call as callLog records it.
Call(api, args, status) == [api |-> api, args |-> args, status |-> status]

\* DoOpen accepting a spec with both addresses set.
DoOpenCheckAllowsBoth(listen_addr, remote_addr) ==
  IF ~listen_addr /\ ~remote_addr THEN "InvalidArgument" ELSE "Ok"

\* The validation at the head of DoOpen: exactly one of listen_addr and
\* remote_addr has a value.
DoOpenCheck(listen_addr, remote_addr) ==
  IF listen_addr /\ remote_addr THEN "InvalidArgument"
  ELSE IF ~listen_addr /\ ~remote_addr THEN "InvalidArgument"
  ELSE "Ok"

\* CreateListener without the test of initialized_.
CreateListenerUnchecked(is_initialized) == "Ok"

\* The test of initialized_ at the head of CreateListener and of
\* CreateClientEndpoint.
CreateListenerCheck(is_initialized) ==
  IF ~is_initialized THEN "FailedPrecondition" ELSE "Ok"

CreateClientEndpointCheck(is_initialized) ==
  IF ~is_initialized THEN "FailedPrecondition" ELSE "Ok"

\* RemoteDramDriverSpec::DoOpen past its validation with listen_addr set:
\* Initialize, then CreateListener, which stores the listener and pre-posts
\* the receives.
OpenServerMode ==
  /\ driver[Srv] = "none"
  /\ LET i == Initialize(Srv) IN
       /\ initialized' = [initialized EXCEPT ![Srv] = i[1]]
       /\ context' = [context EXCEPT ![Srv] = i[2]]
       /\ worker' = [worker EXCEPT ![Srv] = i[3]]
       /\ progress_task_running' = [progress_task_running EXCEPT ![Srv] = i[4]]
  /\ listener' = [listener EXCEPT ![Srv] = TRUE]
  /\ srvPosted' = srvPosted + num_preposted_receives
  /\ active_requests' = [active_requests EXCEPT ![Srv] = @ + num_preposted_receives]
  /\ driver' = [driver EXCEPT ![Srv] = "server"]
  /\ progress_threads' = [progress_threads EXCEPT ![Srv] =
        @ + ThreadsStarted(initialized[Srv], progress_task_running[Srv])]
  /\ listeners' = [listeners EXCEPT ![Srv] = @ + 1]
  /\ UNCHANGED <<pending_write_operations, pending_read_operations,
                 client_endpoints, client_side_endpoints, next_request_id,
                 storage, connReq, accepted, c2s, s2c, cliPosted, sends,
                 taskVars, ops, issued, localWrites, storageLog, crafted,
                 srvSends, mutex_, postHandles>>

\* RemoteDramDriverSpec::DoOpen past its validation with remote_addr set:
\* Initialize, then CreateClientEndpoint; the endpoint's connection request
\* travels to the server's listener.
OpenClientMode(c) ==
  /\ driver[c] = "none"
  /\ LET i == Initialize(c) IN
       /\ initialized' = [initialized EXCEPT ![c] = i[1]]
       /\ context' = [context EXCEPT ![c] = i[2]]
       /\ worker' = [worker EXCEPT ![c] = i[3]]
       /\ progress_task_running' = [progress_task_running EXCEPT ![c] = i[4]]
  /\ client_side_endpoints' = [client_side_endpoints EXCEPT ![c] = Append(@, Srv)]
  /\ connReq' = connReq \cup {c}
  /\ driver' = [driver EXCEPT ![c] = "client"]
  /\ progress_threads' = [progress_threads EXCEPT ![c] =
        @ + ThreadsStarted(initialized[c], progress_task_running[c])]
  /\ UNCHANGED <<listener, pending_write_operations, pending_read_operations,
                 active_requests, client_endpoints, next_request_id, storage,
                 accepted, c2s, s2c, srvPosted, cliPosted, sends, taskVars,
                 ops, issued, localWrites, storageLog, crafted, srvSends,
                 listeners, mutex_, postHandles>>

\* RemoteDramDriverSpec::DoOpen on process p with the two optional addresses
\* of the spec present or absent. A rejected spec returns before Initialize
\* and before any listener or endpoint is created; an accepted one opens the
\* server on the server's process and a client on a client's process.
DoOpen(p, listen_addr, remote_addr) ==
  LET st == DoOpenCheck(listen_addr, remote_addr) IN
  /\ driver[p] = "none"
  /\ callLog' = [callLog EXCEPT ![p] =
                   Append(@, Call("DoOpen", <<listen_addr, remote_addr>>, st))]
  /\ IF st # "Ok"
       THEN UNCHANGED <<mgrVars, storage, driver, netVars, taskVars, ops,
                        issued, localWrites, storageLog, crafted, srvSends, resVars>>
       ELSE IF listen_addr
              THEN p = Srv /\ OpenServerMode
              ELSE p \in Clients /\ OpenClientMode(p)

DoOpenServer == DoOpen(Srv, TRUE, FALSE)

DoOpenClient(c) == DoOpen(c, FALSE, TRUE)

\* UcxListenerCallback, run by the server's progress thread: the endpoint of
\* the connection is created and its registration is left to a new thread.
UcxListenerCallback(c) ==
  /\ c \in connReq
  /\ ProgressRunning(Srv)
  /\ listener[Srv]
  /\ connReq' = connReq \ {c}
  /\ accepted' = accepted \cup {c}
  /\ regTasks' = regTasks \cup {c}
  /\ UNCHANGED <<mgrVars, storage, driver, c2s, s2c, srvPosted, cliPosted,
                 sends, respTasks, postTasks, complTasks, ops, issued,
                 localWrites, storageLog, crafted, callLog, srvSends, resVars>>

\* UcxManager::RegisterClientEndpoint, on the thread UcxListenerCallback spawned.
RegisterClientEndpoint(c) ==
  /\ c \in regTasks
  /\ regTasks' = regTasks \ {c}
  /\ client_endpoints' = [client_endpoints EXCEPT ![Srv] = Append(@, c)]
  /\ UNCHANGED <<initialized, context, worker, listener, progress_task_running,
                 pending_write_operations, pending_read_operations,
                 active_requests, client_side_endpoints, next_request_id,
                 storage, driver, netVars, respTasks, postTasks, complTasks,
                 ops, issued, localWrites, storageLog, crafted, callLog, srvSends, resVars>>

\* GetClientEndpoint returning the first registered endpoint.
GetClientEndpointFirst ==
  IF client_endpoints[Srv] = <<>> THEN 0 ELSE client_endpoints[Srv][1]

\* UcxManager::GetClientEndpoint: the most recently registered endpoint, 0 for
\* nullptr.
GetClientEndpoint ==
  IF client_endpoints[Srv] = <<>> THEN 0
  ELSE client_endpoints[Srv][Len(client_endpoints[Srv])]

(***************************************************************************)
(* UcxManager: request ids and pending tables                              *)
(***************************************************************************)
\* GenerateRequestId returning next_request_id_ without incrementing it.
GenerateRequestIdNoIncrement(next) == [id |-> next, next |-> next]

\* GenerateRequestId: return next_request_id_++.
GenerateRequestId(next) == [id |-> next, next |-> next + 1]

\* RegisterPendingOperation / RegisterPendingReadOperation: table[id] = op.
RegisterPending(table, id) == table \cup {id}

\* CompletePendingOperation setting the promise without looking the id up.
CompletePendingOperationNoFind(table, o, id, status, who, echo) ==
  [table |-> table \ {id}, ops |-> SetResult(o, id, status, who, echo)]

\* CompletePendingOperation resolving the promise and leaving its entry in
\* the table.
CompletePendingOperationKeepsEntry(table, o, id, status, who, echo) ==
  IF id \in table
    THEN [table |-> table, ops |-> SetResult(o, id, status, who, echo)]
    ELSE [table |-> table, ops |-> o]

\* CompletePendingOperation: if the id is in the write table, resolve its
\* promise with the status and erase the entry.  Gives the new table and the
\* promises.
CompletePendingOperation(table, o, id, status, who, echo) ==
  IF id \in table
    THEN [table |-> table \ {id}, ops |-> SetResult(o, id, status, who, echo)]
    ELSE [table |-> table, ops |-> o]

\* CompletePendingReadOperation setting the promise without looking the id up.
CompletePendingReadOperationNoFind(table, o, id, result, who, echo) ==
  [table |-> table \ {id}, ops |-> SetResult(o, id, result, who, echo)]

\* CompletePendingReadOperation: the same on the read table.
CompletePendingReadOperation(table, o, id, result, who, echo) ==
  IF id \in table
    THEN [table |-> table \ {id}, ops |-> SetResult(o, id, result, who, echo)]
    ELSE [table |-> table, ops |-> o]

(***************************************************************************)
(* UcxManager::Shutdown                                                    *)
(***************************************************************************)
\* The state of the UcxManager of process p, with the promises it holds.
Mgr(p) ==
  [initialized |-> initialized[p], context |-> context[p], worker |-> worker[p],
   listener |-> listener[p], progress_task_running |-> progress_task_running[p],
   pending_write_operations |-> pending_write_operations[p],
   pending_read_operations |-> pending_read_operations[p],
   active_requests |-> active_requests[p],
   client_endpoints |-> client_endpoints[p],
   client_side_endpoints |-> client_side_endpoints[p],
   next_request_id |-> next_request_id[p], promises |-> ops[p]]

RECURSIVE ResolveAll(_, _, _)
ResolveAll(o, ids, result) ==
  IF ids = {} THEN o
  ELSE LET id == CHOOSE x \in ids : TRUE
       IN ResolveAll(SetResult(o, id, result, "shutdown", 0), ids \ {id}, result)

\* Shutdown resolving the pending reads like the pending writes.
ShutdownPendingAllCancelled(o, writes, reads) ==
  ResolveAll(o, writes \cup reads, CancelledError)

\* Shutdown resolving the pending writes only.
ShutdownPendingWritesOnly(o, writes, reads) == ResolveAll(o, writes, CancelledError)

\* The loops of Shutdown over both pending tables: every pending write is
\* resolved Cancelled, every pending read Missing.
ShutdownPending(o, writes, reads) ==
  ResolveAll(ResolveAll(o, writes, CancelledError), reads, Missing)

\* Shutdown past its initialized_ test: the progress flag is cleared, the
\* tracked receives are cancelled, listener and endpoints are destroyed, the
\* pending promises are resolved and the tables cleared, worker and context
\* are destroyed.
ShutdownBody(m) ==
  [m EXCEPT !.progress_task_running = FALSE,
            !.active_requests = 0,
            !.listener = FALSE,
            !.client_endpoints = <<>>,
            !.client_side_endpoints = <<>>,
            !.promises = ShutdownPending(m.promises, m.pending_write_operations,
                                         m.pending_read_operations),
            !.pending_write_operations = {},
            !.pending_read_operations = {},
            !.worker = FALSE,
            !.context = FALSE,
            !.initialized = FALSE]

\* Shutdown without the test of initialized_.
ShutdownUnguarded(m) == ShutdownBody(m)

\* What Shutdown makes of a manager: nothing when it is not initialized.
ShutdownState(m) == IF ~m.initialized THEN m ELSE ShutdownBody(m)

\* UcxManager::Shutdown on process p.  With the worker destroyed, the receives
\* and sends still outstanding on it never complete.
Shutdown(p) ==
  LET m == ShutdownState(Mgr(p)) IN
    /\ initialized' = [initialized EXCEPT ![p] = m.initialized]
    /\ context' = [context EXCEPT ![p] = m.context]
    /\ worker' = [worker EXCEPT ![p] = m.worker]
    /\ listener' = [listener EXCEPT ![p] = m.listener]
    /\ progress_task_running' =
         [progress_task_running EXCEPT ![p] = m.progress_task_running]
    /\ pending_write_operations' =
         [pending_write_operations EXCEPT ![p] = m.pending_write_operations]
    /\ pending_read_operations' =
         [pending_read_operations EXCEPT ![p] = m.pending_read_operations]
    /\ active_requests' = [active_requests EXCEPT ![p] = m.active_requests]
    /\ client_endpoints' = [client_endpoints EXCEPT ![p] = m.client_endpoints]
    /\ client_side_endpoints' =
         [client_side_endpoints EXCEPT ![p] = m.client_side_endpoints]
    /\ next_request_id' = [next_request_id EXCEPT ![p] = m.next_request_id]
    /\ ops' = [ops EXCEPT ![p] = m.promises]
    /\ IF ~initialized[p]
         THEN UNCHANGED <<srvPosted, accepted, cliPosted, sends>>
         ELSE IF p = Srv
           THEN /\ srvPosted' = 0
                /\ accepted' = {}
                /\ UNCHANGED <<cliPosted, sends>>
           ELSE /\ cliPosted' = [cliPosted EXCEPT ![p] = <<>>]
                /\ sends' = [sends EXCEPT ![p] = {}]
                /\ UNCHANGED <<srvPosted, accepted>>
    /\ listeners' = [listeners EXCEPT ![p] =
          IF initialized[p] /\ listener[p] THEN @ - 1 ELSE @]
    /\ UNCHANGED <<storage, driver, connReq, c2s, s2c, taskVars, issued,
                   localWrites, storageLog, crafted, callLog, srvSends,
                   progress_threads, mutex_, postHandles>>

(***************************************************************************)
(* RemoteDramDriver, client mode: WriteRemote and ReadRemote               *)
(***************************************************************************)
\* What ucp_tag_send_nbx can answer: an immediate error, immediate
\* completion, or a request in progress whose SendCallback later reports
\* success ("async") or failure ("asyncfail").
SendOutcomes == {"err", "imm", "async", "asyncfail"}

\* What ReadRemote can meet: besides the outcomes of the send, the failure to
\* post the response receive ("nopost"; the request is sent all the same).
ReadOutcomes == SendOutcomes \cup {"nopost"}

NoExpect == [has |-> FALSE, val |-> <<>>]

\* The value the last write of client c to key left, if that write's future
\* has resolved Ok by now.
ExpectAt(c, key) ==
  LET ws == {i \in DOMAIN ops[c] : ops[c][i].kind = "W" /\ ops[c][i].key = key}
  IN IF ws = {} THEN NoExpect
     ELSE LET w == CHOOSE i \in ws : \A j \in ws : j <= i
          IN IF ops[c][w].fut.st = "Ok"
               THEN [has |-> TRUE, val |-> ops[c][w].value]
               ELSE NoExpect

NewOp(kind, key, value, mode, expect) ==
  [kind |-> kind, key |-> key, value |-> value, mode |-> mode, fut |-> Pending,
   nres |-> 0, by |-> "none", echo |-> 0, expect |-> expect]

AddOp(o, id, op) == [i \in (DOMAIN o) \cup {id} |-> IF i = id THEN op ELSE o[i]]

Issued(c, kind) ==
  Cardinality({i \in 1..Len(issued[c]) : issued[c][i].kind = kind})

\* A receive the client posted: the request id in its user data, its tag and
\* its callback.
PostedReceive(id, tag, cb) == [request_id |-> id, tag |-> tag, cb |-> cb]

WriteRemoteCall(c, key, value, how) ==
  /\ driver[c] = "client"
  /\ initialized[c]
  /\ LET g == GenerateRequestId(next_request_id[c])
         id == g.id
         msg == InitializeMessageHeader(WRITE_REQUEST, Len(key), Len(value), id,
                                        key \o value, UCX_TAG_WRITE_REQUEST)
         registered == RegisterPending(pending_write_operations[c], id)
         o1 == AddOp(ops[c], id, NewOp("W", key, value, how, NoExpect))
         done == IF how = "err"
                   THEN CompletePendingOperation(registered, o1, id, InternalError, "post", 0)
                 ELSE IF how = "imm"
                   THEN CompletePendingOperation(registered, o1, id, OkStatus, "post", 0)
                 ELSE [table |-> registered, ops |-> o1]
     IN /\ next_request_id' = [next_request_id EXCEPT ![c] = g.next]
        /\ issued' = [issued EXCEPT ![c] = Append(@, [id |-> id, kind |-> "W"])]
        /\ cliPosted' = [cliPosted EXCEPT ![c] =
                           Append(@, PostedReceive(id, UCX_TAG_WRITE_RESPONSE, "write"))]
        /\ c2s' = IF how \in {"imm", "async"}
                    THEN [c2s EXCEPT ![c] = Append(@, msg)] ELSE c2s
        /\ sends' = IF how \in {"async", "asyncfail"}
                      THEN [sends EXCEPT ![c] = @ \cup {[id |-> id, ok |-> how = "async"]}]
                      ELSE sends
        /\ pending_write_operations' = [pending_write_operations EXCEPT ![c] = done.table]
        /\ ops' = [ops EXCEPT ![c] = done.ops]
  /\ UNCHANGED <<initialized, context, worker, listener, progress_task_running,
                 pending_read_operations, active_requests, client_endpoints,
                 client_side_endpoints, storage, driver, connReq, accepted, s2c,
                 srvPosted, taskVars, localWrites, storageLog, crafted, srvSends, resVars>>

WriteRemote(c, key, value, how) ==
  WriteRemoteCall(c, key, value, how) /\ UNCHANGED callLog

ReadRemoteCall(c, key, how) ==
  /\ driver[c] = "client"
  /\ initialized[c]
  /\ LET g == GenerateRequestId(next_request_id[c])
         id == g.id
         msg == InitializeMessageHeader(READ_REQUEST, Len(key), 0, id, key,
                                        UCX_TAG_READ_REQUEST)
         registered == RegisterPending(pending_read_operations[c], id)
         o1 == AddOp(ops[c], id, NewOp("R", key, <<>>, how, ExpectAt(c, key)))
         done == IF how \in {"err", "nopost"}
                   THEN CompletePendingReadOperation(registered, o1, id, Missing, "post", 0)
                   ELSE [table |-> registered, ops |-> o1]
     IN /\ next_request_id' = [next_request_id EXCEPT ![c] = g.next]
        /\ issued' = [issued EXCEPT ![c] = Append(@, [id |-> id, kind |-> "R"])]
        /\ cliPosted' = IF how = "nopost" THEN cliPosted
                        ELSE [cliPosted EXCEPT ![c] =
                           Append(@, PostedReceive(id, UCX_TAG_READ_RESPONSE, "read"))]
        /\ c2s' = IF how \in {"imm", "async", "nopost"}
                    THEN [c2s EXCEPT ![c] = Append(@, msg)] ELSE c2s
        /\ sends' = IF how \in {"async", "asyncfail"}
                      THEN [sends EXCEPT ![c] = @ \cup {[id |-> id, ok |-> how = "async"]}]
                      ELSE sends
        /\ pending_read_operations' = [pending_read_operations EXCEPT ![c] = done.table]
        /\ ops' = [ops EXCEPT ![c] = done.ops]
  /\ UNCHANGED <<initialized, context, worker, listener, progress_task_running,
                 pending_write_operations, active_requests, client_endpoints,
                 client_side_endpoints, storage, driver, connReq, accepted, s2c,
                 srvPosted, taskVars, localWrites, storageLog, crafted,
                 srvSends, resVars>>

ReadRemote(c, key, how) == ReadRemoteCall(c, key, how) /\ UNCHANGED callLog

(***************************************************************************)
(* Client-side transport callbacks and the threads they spawn              *)
(***************************************************************************)
\* What a callback that received no message has seen.
NoMessage == Message(Zero32, 0, 0, 0, 0, Zero32, 0, <<>>, 0, 0)

\* A thread that will call CompletePendingOperation (kind "w") or
\* CompletePendingReadOperation (kind "r"); src tells the callback that
\* spawned it, echo the request_id field of the response it saw, seen the
\* whole message the callback built the result from.
ComplTask(kind, id, result, src, echo, seen) ==
  [kind |-> kind, id |-> id, result |-> result, src |-> src, echo |-> echo,
   seen |-> seen]

\* SendCallback, for a write or a read request alike: a thread is spawned that
\* calls CompletePendingOperation(request_id, status).
SendCallback(c, s) ==
  /\ s \in sends[c]
  /\ ProgressRunning(c)
  /\ sends' = [sends EXCEPT ![c] = @ \ {s}]
  /\ complTasks' = [complTasks EXCEPT ![c] = @ \cup
        {ComplTask("w", s.id, IF s.ok THEN OkStatus ELSE InternalError, "send", 0,
                   NoMessage)}]
  /\ UNCHANGED <<mgrVars, storage, driver, connReq, accepted, c2s, s2c,
                 srvPosted, cliPosted, regTasks, respTasks, postTasks, ops, issued,
                 localWrites, storageLog, crafted, callLog, srvSends, resVars>>

\* ClientReceiveCallback taking whatever follows the header for the value,
\* without looking at value_length.
ReadResultOfUnchecked(m, length) ==
  IF length >= SizeofResponse /\ m.status_code = 0 /\ m.value_length > 0
    THEN ValueResult(m.payload)
    ELSE Missing

\* The ReadResult ClientReceiveCallback builds from a received message.
ReadResultOf(m, length) ==
  IF length >= SizeofResponse
    THEN IF m.status_code = 0 /\ m.value_length > 0
           THEN IF m.value_length > MaxValueLength THEN Missing
                ELSE IF length < SizeofResponse + m.value_length THEN Missing
                ELSE ValueResult(SubSeq(m.payload, 1, m.value_length))
           ELSE Missing
    ELSE Missing

\* The status ClientWriteResponseCallback builds from a received message.
WriteStatusOf(m, length) ==
  IF length >= SizeofResponse
    THEN IF m.status_code = 0 THEN OkStatus ELSE InternalError
    ELSE InternalError

\* The first posted receive of c that matches tag (0 if none).
RECURSIVE FirstMatch(_, _, _)
FirstMatch(posted, tag, i) ==
  IF i > Len(posted) THEN 0
  ELSE IF TagMatch(posted[i].tag, UCX_TAG_MASK, tag) THEN i
  ELSE FirstMatch(posted, tag, i + 1)

\* The first message for c that some posted receive matches (0 if none).
RECURSIVE FirstDeliverable(_, _, _)
FirstDeliverable(msgs, posted, i) ==
  IF i > Len(msgs) THEN 0
  ELSE IF FirstMatch(posted, msgs[i].tag, 1) # 0 THEN i
  ELSE FirstDeliverable(msgs, posted, i + 1)

RemoveAt(seq, i) == SubSeq(seq, 1, i - 1) \o SubSeq(seq, i + 1, Len(seq))

\* ClientReceiveCallback / ClientWriteResponseCallback: a message is matched
\* with a posted receive; the callback of that receive takes the request id
\* from the receive's user data and spawns the completing thread.
ClientReceive(c) ==
  /\ ProgressRunning(c)
  /\ LET i == FirstDeliverable(s2c[c], cliPosted[c], 1) IN
       /\ i # 0
       /\ LET m == s2c[c][i]
              j == FirstMatch(cliPosted[c], m.tag, 1)
              r == cliPosted[c][j]
          IN /\ s2c' = [s2c EXCEPT ![c] = RemoveAt(@, i)]
             /\ cliPosted' = [cliPosted EXCEPT ![c] = RemoveAt(@, j)]
             /\ complTasks' = [complTasks EXCEPT ![c] = @ \cup
                  {IF r.cb = "read"
                     THEN ComplTask("r", r.request_id, ReadResultOf(m, m.length),
                                    "recv", m.request_id, m)
                     ELSE ComplTask("w", r.request_id, WriteStatusOf(m, m.length),
                                    "recv", m.request_id, m)}]
  /\ UNCHANGED <<mgrVars, storage, driver, connReq, accepted, c2s, srvPosted,
                 sends, regTasks, respTasks, postTasks, ops, issued,
                 localWrites, storageLog, crafted, callLog, srvSends, resVars>>

\* The else branch of ClientReceiveCallback / ClientWriteResponseCallback: the
\* j-th posted receive of c completes with an error status; the thread it
\* spawns completes the read with Missing, the write with an Internal error.
ClientReceiveError(c, j) ==
  /\ ProgressRunning(c)
  /\ j \in 1..Len(cliPosted[c])
  /\ LET r == cliPosted[c][j] IN
       /\ cliPosted' = [cliPosted EXCEPT ![c] = RemoveAt(@, j)]
       /\ complTasks' = [complTasks EXCEPT ![c] = @ \cup
            {IF r.cb = "read"
               THEN ComplTask("r", r.request_id, Missing, "recverr", 0, NoMessage)
               ELSE ComplTask("w", r.request_id, InternalError, "recverr", 0,
                              NoMessage)}]
  /\ UNCHANGED <<mgrVars, storage, driver, connReq, accepted, c2s, s2c,
                 srvPosted, sends, regTasks, respTasks, postTasks, ops, issued,
                 localWrites, storageLog, crafted, callLog, srvSends, resVars>>

\* A completing thread runs: CompletePendingOperation or
\* CompletePendingReadOperation under the manager mutex.
CompleteTask(c, t) ==
  /\ t \in complTasks[c]
  /\ complTasks' = [complTasks EXCEPT ![c] = @ \ {t}]
  /\ IF t.kind = "w"
       THEN LET r == CompletePendingOperation(pending_write_operations[c], ops[c],
                                              t.id, t.result, t.src, t.echo)
            IN /\ pending_write_operations' =
                    [pending_write_operations EXCEPT ![c] = r.table]
               /\ ops' = [ops EXCEPT ![c] = r.ops]
               /\ UNCHANGED pending_read_operations
       ELSE LET r == CompletePendingReadOperation(pending_read_operations[c], ops[c],
                                                  t.id, t.result, t.src, t.echo)
            IN /\ pending_read_operations' =
                    [pending_read_operations EXCEPT ![c] = r.table]
               /\ ops' = [ops EXCEPT ![c] = r.ops]
               /\ UNCHANGED pending_write_operations
  /\ UNCHANGED <<initialized, context, worker, listener, progress_task_running,
                 active_requests, client_endpoints, client_side_endpoints,
                 next_request_id, storage, driver, netVars, regTasks, respTasks,
                 postTasks, issued, localWrites, storageLog, crafted, callLog, srvSends, resVars>>

\* absl::MutexLock on a manager mutex by `thread`: the thread holds the
\* mutex if it was free and waits otherwise; absl::Mutex is not reentrant, so
\* a thread that already holds it waits for itself.
MutexLock(m, thread) ==
  IF m.holder = "none" THEN [m EXCEPT !.holder = thread]
  ELSE [m EXCEPT !.waiters = @ \cup {thread}]

\* No thread holds the manager mutex of process p.
MutexFree(p) == mutex_[p].holder = "none"

\* Promise::SetResult with a continuation registered on the future
\* (ExecuteWhenReady): the continuation runs on the thread that sets the
\* result, before SetResult returns.  Here the continuation issues a new
\* Write or Read on the client driver, whose client_endpoint_ is set:
\* WriteRemote / ReadRemote call GenerateRequestId, which locks mutex m.
SetResultRunsContinuation(m, thread) == MutexLock(m, thread)

\* A completing thread runs for a request id that is in its pending table
\* and whose future has such a continuation: it locks the mutex, sets the
\* result, and the continuation blocks in GenerateRequestId; the erase after
\* SetResult is not reached.
CompleteTaskReissues(c, t) ==
  /\ t \in complTasks[c]
  /\ MutexFree(c)
  /\ driver[c] = "client"
  /\ t.id \in (IF t.kind = "w" THEN pending_write_operations[c]
                               ELSE pending_read_operations[c])
  /\ complTasks' = [complTasks EXCEPT ![c] = @ \ {t}]
  /\ ops' = [ops EXCEPT ![c] = SetResult(@, t.id, t.result, t.src, t.echo)]
  /\ mutex_' = [mutex_ EXCEPT ![c] =
       SetResultRunsContinuation(MutexLock(@, "CompletePending"),
                                 "CompletePending")]
  /\ UNCHANGED <<mgrVars, storage, driver, netVars, regTasks, respTasks,
                 postTasks, issued, localWrites, storageLog, crafted, callLog,
                 srvSends, progress_threads, listeners, postHandles>>

\* UcxManager::Shutdown on a client with a pending promise whose future has
\* such a continuation: Shutdown locks the mutex, clears the progress flag
\* and the endpoints, sets the result of the first promise its loop visits
\* (a write first, the tables being iterated in no particular order), and
\* the continuation blocks in GenerateRequestId; the rest of Shutdown is not
\* reached.
ShutdownReissues(c) ==
  /\ c \in Clients
  /\ driver[c] = "client"
  /\ initialized[c]
  /\ MutexFree(c)
  /\ pending_write_operations[c] \cup pending_read_operations[c] # {}
  /\ progress_task_running' = [progress_task_running EXCEPT ![c] = FALSE]
  /\ active_requests' = [active_requests EXCEPT ![c] = 0]
  /\ client_endpoints' = [client_endpoints EXCEPT ![c] = <<>>]
  /\ client_side_endpoints' = [client_side_endpoints EXCEPT ![c] = <<>>]
  /\ IF pending_write_operations[c] # {}
       THEN \E id \in pending_write_operations[c] :
              ops' = [ops EXCEPT ![c] =
                        SetResult(@, id, CancelledError, "shutdown", 0)]
       ELSE \E id \in pending_read_operations[c] :
              ops' = [ops EXCEPT ![c] = SetResult(@, id, Missing, "shutdown", 0)]
  /\ mutex_' = [mutex_ EXCEPT ![c] =
       SetResultRunsContinuation(MutexLock(@, "Shutdown"), "Shutdown")]
  /\ UNCHANGED <<initialized, context, worker, listener,
                 pending_write_operations, pending_read_operations,
                 next_request_id, storage, driver, netVars, taskVars, issued,
                 localWrites, storageLog, crafted, callLog, srvSends,
                 progress_threads, listeners, postHandles>>

(***************************************************************************)
(* Server receive path                                                     *)
(***************************************************************************)
\* A thread that will send a response: GetClientEndpoint, then
\* SendWriteResponse (kind "w") or SendReadResponse (kind "r").  `from` only
\* tells the threads of different connections apart; the code does not carry
\* it.
RespTask(kind, rid, has, value, from) ==
  [kind |-> kind, request_id |-> rid, has_value |-> has, value |-> value,
   from |-> from]

\* What ServerReceiveCallback does with a received message of `length` bytes:
\* whether it stores into the map, which response thread it spawns and
\* whether it spawns the thread that posts a replacement receive.
ServerHandle(m, length, from) ==
  LET key == SubSeq(m.payload, 1, m.key_length)
      value == SubSeq(m.payload, m.key_length + 1, m.key_length + m.value_length)
      drop == [store |-> FALSE, key |-> <<>>, value |-> <<>>, resp |-> {},
               repost |-> FALSE]
  IN IF length >= SizeofMessageHeader
       THEN IF ~VerifyMessageHeader(m, length) THEN drop
            ELSE IF m.type = WRITE_REQUEST
              THEN IF /\ m.checksum # Zero32
                      /\ CalculateChecksum(SubSeq(m.payload, 1,
                             m.key_length + m.value_length)) # m.checksum
                     THEN drop
                     ELSE [store |-> TRUE, key |-> key, value |-> value,
                           resp |-> {RespTask("w", m.request_id, FALSE, <<>>, from)},
                           repost |-> context[Srv] /\ worker[Srv]]
            ELSE IF m.type = READ_REQUEST
              THEN [store |-> FALSE, key |-> key, value |-> <<>>,
                    resp |-> {RespTask("r", m.request_id, Get(storage, key).has_value,
                                       Get(storage, key).value, from)},
                    repost |-> context[Srv] /\ worker[Srv]]
            ELSE [drop EXCEPT !.repost = context[Srv] /\ worker[Srv]]
       ELSE drop

\* ServerReceiveCallback, run by the server's progress thread when a posted
\* receive completes with the next message of connection c.
ServerReceiveCallback(c) ==
  /\ ProgressRunning(Srv)
  /\ c \in accepted
  /\ c2s[c] # <<>>
  /\ srvPosted > 0
  /\ LET m == Head(c2s[c])
         e == ServerHandle(m, m.length, c)
     IN /\ c2s' = [c2s EXCEPT ![c] = Tail(@)]
        /\ srvPosted' = srvPosted - 1
        /\ storage' = IF e.store THEN Store(storage, e.key, e.value) ELSE storage
        /\ storageLog' = IF e.store
                           THEN Append(storageLog, LogEntry("Store", e.key, e.value, TRUE))
                           ELSE storageLog
        /\ respTasks' = respTasks \cup e.resp
        /\ postTasks' = IF e.repost THEN postTasks + 1 ELSE postTasks
  /\ UNCHANGED <<mgrVars, driver, connReq, accepted, s2c, cliPosted, sends,
                 regTasks, complTasks, ops, issued, localWrites, crafted, callLog, srvSends, resVars>>

\* The replacement thread posting two receives.
PostServerReceiveTwice ==
  /\ postTasks > 0
  /\ postTasks' = postTasks - 1
  /\ IF worker[Srv]
       THEN /\ srvPosted' = srvPosted + 2
            /\ active_requests' = [active_requests EXCEPT ![Srv] = @ + 2]
       ELSE UNCHANGED <<srvPosted, active_requests>>
  /\ UNCHANGED <<initialized, context, worker, listener, progress_task_running,
                 pending_write_operations, pending_read_operations,
                 client_endpoints, client_side_endpoints, next_request_id,
                 storage, driver, connReq, accepted, c2s, s2c, cliPosted, sends,
                 regTasks, respTasks, complTasks, ops, issued,
                 localWrites, storageLog, crafted, callLog, srvSends, resVars>>

\* UcxManager::PostServerReceive, on the thread ServerReceiveCallback spawned:
\* nothing is posted when the worker is gone.
PostServerReceive ==
  /\ postTasks > 0
  /\ postTasks' = postTasks - 1
  /\ IF worker[Srv]
       THEN /\ srvPosted' = srvPosted + 1
            /\ active_requests' = [active_requests EXCEPT ![Srv] = @ + 1]
       ELSE UNCHANGED <<srvPosted, active_requests>>
  /\ UNCHANGED <<initialized, context, worker, listener, progress_task_running,
                 pending_write_operations, pending_read_operations,
                 client_endpoints, client_side_endpoints, next_request_id,
                 storage, driver, connReq, accepted, c2s, s2c, cliPosted, sends,
                 regTasks, respTasks, complTasks, ops, issued,
                 localWrites, storageLog, crafted, callLog, srvSends, resVars>>

\* The first half of PostServerReceive: the thread takes the mutex, copies
\* worker_ into worker_handle and releases the mutex; with a null handle it
\* returns.
PostServerReceiveCopiesHandle ==
  /\ postTasks > 0
  /\ postTasks' = postTasks - 1
  /\ postHandles' = IF worker[Srv] THEN Append(postHandles, TRUE) ELSE postHandles
  /\ UNCHANGED <<mgrVars, storage, driver, netVars, regTasks, respTasks,
                 complTasks, ops, issued, localWrites, storageLog, crafted,
                 callLog, srvSends, progress_threads, listeners, mutex_>>

\* The second half of PostServerReceive: without the mutex the thread calls
\* ucp_tag_recv_nbx on the handle it copied and records the request.  On a
\* worker that Shutdown has destroyed in between the call is undefined: it
\* fails, or returns something that is recorded as a request.
PostServerReceiveUsesHandle ==
  /\ postHandles # <<>>
  /\ postHandles' = Tail(postHandles)
  /\ IF worker[Srv]
       THEN /\ srvPosted' = srvPosted + 1
            /\ active_requests' = [active_requests EXCEPT ![Srv] = @ + 1]
       ELSE /\ srvPosted' = srvPosted
            /\ \E tracked \in {0, 1} :
                 active_requests' = [active_requests EXCEPT ![Srv] = @ + tracked]
  /\ UNCHANGED <<initialized, context, worker, listener, progress_task_running,
                 pending_write_operations, pending_read_operations,
                 client_endpoints, client_side_endpoints, next_request_id,
                 storage, driver, connReq, accepted, c2s, s2c, cliPosted, sends,
                 taskVars, ops, issued, localWrites, storageLog, crafted,
                 callLog, srvSends, progress_threads, listeners, mutex_>>

\* The values a header field that SendWriteResponse never assigns may hold.
Uninit32 == {Zero32, MESSAGE_MAGIC_NUMBER}

\* The message SendWriteResponse sends: magic_number and checksum are not set.
WriteResponseMessage(rid, status_code, magic, cks) ==
  Message(magic, WRITE_RESPONSE, 0, 0, rid, cks, status_code, <<>>,
          UCX_TAG_WRITE_RESPONSE, SizeofResponse)

\* SendReadResponse leaving request_id 0 in the header.
ReadResponseMessageNoEcho(rid, has_value, value) ==
  Message(MESSAGE_MAGIC_NUMBER, READ_RESPONSE, 0,
          IF has_value THEN Len(value) ELSE 0, 0,
          IF has_value /\ Len(value) > 0 THEN CalculateChecksum(value) ELSE Zero32,
          IF has_value THEN 0 ELSE 1,
          IF has_value THEN value ELSE <<>>,
          UCX_TAG_READ_RESPONSE,
          SizeofResponse + (IF has_value THEN Len(value) ELSE 0))

\* The message SendReadResponse sends: status 0 and the value if there is
\* one, else status 1 and no value.
ReadResponseMessage(rid, has_value, value) ==
  LET value_size == IF has_value THEN Len(value) ELSE 0
      withValue == has_value /\ value_size > 0
  IN Message(MESSAGE_MAGIC_NUMBER, READ_RESPONSE, 0, value_size, rid,
             IF withValue THEN CalculateChecksum(value) ELSE Zero32,
             IF has_value THEN 0 ELSE 1,
             IF withValue THEN value ELSE <<>>,
             UCX_TAG_READ_RESPONSE,
             IF withValue THEN SizeofResponse + value_size ELSE SizeofResponse)

\* A response thread runs: it asks for the most recently registered client
\* endpoint and sends on it; with no endpoint registered nothing is sent.
SendResponse(t) ==
  /\ t \in respTasks
  /\ respTasks' = respTasks \ {t}
  /\ LET ep == GetClientEndpoint IN
       IF ep = 0 THEN s2c' = s2c
       ELSE IF t.kind = "w"
         THEN \E magic \in Uninit32, cks \in Uninit32 :
                s2c' = [s2c EXCEPT ![ep] =
                          Append(@, WriteResponseMessage(t.request_id, 0, magic, cks))]
         ELSE s2c' = [s2c EXCEPT ![ep] =
                        Append(@, ReadResponseMessage(t.request_id, t.has_value, t.value))]
  /\ UNCHANGED <<mgrVars, storage, driver, connReq, accepted, c2s, srvPosted,
                 cliPosted, sends, regTasks, postTasks, complTasks, ops, issued,
                 localWrites, storageLog, crafted, callLog, srvSends, resVars>>

\* Where SendWriteResponse and SendReadResponse keep the bytes they hand to
\* ucp_tag_send_nbx: the local variable `response` for a WriteResponse and
\* for a header-only ReadResponse, a heap array owned through user_data for
\* a ReadResponse with a value.
BufferOf(t) ==
  IF t.kind = "r" /\ t.has_value /\ Len(t.value) > 0 THEN "heap" ELSE "stack"

\* What the transport may transmit from a buffer: the bytes as built while
\* the buffer is alive; from a local variable of a function that has
\* returned, those bytes or whatever overwrote them.
Transmitted(msg, alive) ==
  IF alive THEN {msg}
  ELSE {msg, [msg EXCEPT !.magic_number = Zero32, !.request_id = 0]}

\* A response thread runs and ucp_tag_send_nbx returns a request handle: the
\* send is in progress when SendWriteResponse or SendReadResponse returns.
\* A heap buffer stays with the send callback; a local variable ends with
\* the function.
SendResponseInProgress(t) ==
  /\ t \in respTasks
  /\ GetClientEndpoint # 0
  /\ respTasks' = respTasks \ {t}
  /\ \E magic \in Uninit32, cks \in Uninit32 :
       srvSends' = srvSends \cup
         {[ep |-> GetClientEndpoint,
           msg |-> IF t.kind = "w"
                     THEN WriteResponseMessage(t.request_id, 0, magic, cks)
                     ELSE ReadResponseMessage(t.request_id, t.has_value, t.value),
           buffer |-> BufferOf(t),
           alive |-> BufferOf(t) = "heap"]}
  /\ UNCHANGED <<mgrVars, storage, driver, netVars, regTasks, postTasks,
                 complTasks, ops, issued, localWrites, storageLog, crafted,
                 callLog, resVars>>

\* The server's progress thread completes a response send: the transport
\* transmits what the buffer holds and runs the send callback, which deletes
\* a heap buffer.
ServerSendCompletes(s) ==
  /\ s \in srvSends
  /\ ProgressRunning(Srv)
  /\ srvSends' = srvSends \ {s}
  /\ \E m \in Transmitted(s.msg, s.alive) :
       s2c' = [s2c EXCEPT ![s.ep] = Append(@, m)]
  /\ UNCHANGED <<mgrVars, storage, driver, connReq, accepted, c2s, srvPosted,
                 cliPosted, sends, taskVars, ops, issued, localWrites,
                 storageLog, crafted, callLog, resVars>>

(***************************************************************************)
(* RemoteDramDriver, server mode                                           *)
(***************************************************************************)
\* RemoteDramDriver::Write with is_server_mode_ set: WriteLocal stores into
\* the map of the process and returns a ready future.
WriteLocalCall(key, value) ==
  /\ driver[Srv] = "server"
  /\ storage' = Store(storage, key, value)
  /\ storageLog' = Append(storageLog, LogEntry("Store", key, value, TRUE))
  /\ localWrites' = localWrites + 1
  /\ UNCHANGED <<mgrVars, driver, netVars, taskVars, ops, issued, crafted, srvSends, resVars>>

WriteLocal(key, value) == WriteLocalCall(key, value) /\ UNCHANGED callLog

\* An optional value as Write receives it.
NullValue == [has_value |-> FALSE, value |-> <<>>]
SomeValue(v) == [has_value |-> TRUE, value |-> v]

\* Write without the test of its value.
WriteCheckAcceptsNull(value) == "Future"

\* The test at the head of RemoteDramDriver::Write: an absent value is
\* rejected; any other call returns the future of WriteLocal or WriteRemote.
WriteCheck(value) == IF ~value.has_value THEN "InvalidArgument" ELSE "Future"

\* RemoteDramDriver::Write on the driver of process p: the value is tested
\* first, then the call goes to WriteLocal in server mode and to WriteRemote
\* in client mode.
Write(p, key, value, how) ==
  LET st == WriteCheck(value) IN
  /\ driver[p] # "none"
  /\ callLog' = [callLog EXCEPT ![p] =
       Append(@, Call("Write", <<key, value>>,
                      IF st = "Future" /\ driver[p] = "server"
                        THEN "ReadyFuture" ELSE st))]
  /\ IF st # "Future"
       THEN UNCHANGED <<mgrVars, storage, driver, netVars, taskVars, ops,
                        issued, localWrites, storageLog, crafted, srvSends, resVars>>
       ELSE IF driver[p] = "server"
              THEN WriteLocalCall(key, value.value)
              ELSE WriteRemoteCall(p, key, value.value, how)

\* ReadLocal answering Missing for a key whose value is empty.
ReadLocalEmptyIsMissing(s, key) ==
  IF Get(s, key).has_value /\ Len(Get(s, key).value) > 0
    THEN ValueResult(Get(s, key).value) ELSE Missing

\* The result in the ready future of RemoteDramDriver::ReadLocal: kMissing
\* when the map has no such key, else kValue with the value it holds.
ReadLocal(s, key) ==
  IF ~Get(s, key).has_value THEN Missing ELSE ValueResult(Get(s, key).value)

\* RemoteDramDriver::Read on the driver of process p: ReadLocal in server
\* mode, which returns a ready future and changes nothing; ReadRemote in
\* client mode, which returns the future of the pending read.
Read(p, key, how) ==
  /\ driver[p] # "none"
  /\ callLog' = [callLog EXCEPT ![p] =
       Append(@, Call("Read", <<key>>,
                      IF driver[p] = "server" THEN ReadLocal(storage, key)
                      ELSE Pending))]
  /\ IF driver[p] = "server"
       THEN UNCHANGED <<mgrVars, storage, driver, netVars, taskVars, ops,
                        issued, localWrites, storageLog, crafted, srvSends,
                        resVars>>
       ELSE ReadRemoteCall(p, key, how)

\* UcxManager::CreateListener called on the manager of process p. On a
\* manager that is not initialized it returns before touching any member;
\* otherwise it stores the listener and pre-posts the receives.
CreateListener(p) ==
  LET st == CreateListenerCheck(initialized[p]) IN
  /\ st = "Ok" => p = Srv
  /\ callLog' = [callLog EXCEPT ![p] =
                   Append(@, Call("CreateListener", <<>>, st))]
  /\ IF st # "Ok"
       THEN UNCHANGED <<mgrVars, srvPosted, listeners>>
       ELSE /\ listener' = [listener EXCEPT ![p] = TRUE]
            /\ listeners' = [listeners EXCEPT ![p] = @ + 1]
            /\ srvPosted' = srvPosted + num_preposted_receives
            /\ active_requests' = [active_requests EXCEPT ![p] =
                                     @ + num_preposted_receives]
            /\ UNCHANGED <<initialized, context, worker, progress_task_running,
                           pending_write_operations, pending_read_operations,
                           client_endpoints, client_side_endpoints,
                           next_request_id>>
  /\ UNCHANGED <<storage, driver, connReq, accepted, c2s, s2c, cliPosted,
                 sends, taskVars, ops, issued, localWrites, storageLog, crafted,
                 srvSends, progress_threads, mutex_, postHandles>>

\* UcxManager::CreateClientEndpoint called on the manager of process p. On a
\* manager that is not initialized it returns before touching any member;
\* otherwise the new endpoint is registered and its connection request
\* travels to the server's listener.
CreateClientEndpoint(p) ==
  LET st == CreateClientEndpointCheck(initialized[p]) IN
  /\ st = "Ok" => p \in Clients
  /\ callLog' = [callLog EXCEPT ![p] =
                   Append(@, Call("CreateClientEndpoint", <<>>, st))]
  /\ IF st # "Ok"
       THEN UNCHANGED <<mgrVars, connReq>>
       ELSE /\ client_side_endpoints' =
                 [client_side_endpoints EXCEPT ![p] = Append(@, Srv)]
            /\ connReq' = connReq \cup {p}
            /\ UNCHANGED <<initialized, context, worker, listener,
                           progress_task_running, pending_write_operations,
                           pending_read_operations, active_requests,
                           client_endpoints, next_request_id>>
  /\ UNCHANGED <<storage, driver, accepted, c2s, s2c, srvPosted, cliPosted,
                 sends, taskVars, ops, issued, localWrites, storageLog, crafted, srvSends, resVars>>

\* UcxManager::Initialize called on the manager of process p, as every
\* DoOpen calls it: nothing on an initialized manager; otherwise context and
\* worker are created and StartWorkerProgressTask starts a progress thread.
InitializeCall(p) ==
  LET i == Initialize(p) IN
  /\ callLog' = [callLog EXCEPT ![p] = Append(@, Call("Initialize", <<>>, "Ok"))]
  /\ initialized' = [initialized EXCEPT ![p] = i[1]]
  /\ context' = [context EXCEPT ![p] = i[2]]
  /\ worker' = [worker EXCEPT ![p] = i[3]]
  /\ progress_task_running' = [progress_task_running EXCEPT ![p] = i[4]]
  /\ progress_threads' = [progress_threads EXCEPT ![p] =
        @ + ThreadsStarted(initialized[p], progress_task_running[p])]
  /\ UNCHANGED <<listener, pending_write_operations, pending_read_operations,
                 active_requests, client_endpoints, client_side_endpoints,
                 next_request_id, storage, driver, netVars, taskVars, ops,
                 issued, localWrites, storageLog, crafted, srvSends, listeners,
                 mutex_, postHandles>>

\* WorkerProgressTask: a progress thread wakes from its sleep, takes the
\* mutex, finds initialized_ or progress_task_running_ cleared and returns.
\* A thread that finds both set polls the worker and sleeps again.
ProgressThreadExits(p) ==
  /\ progress_threads[p] > 0
  /\ ~initialized[p] \/ ~progress_task_running[p]
  /\ progress_threads' = [progress_threads EXCEPT ![p] = @ - 1]
  /\ UNCHANGED <<mgrVars, storage, driver, netVars, taskVars, ops, issued,
                 localWrites, storageLog, crafted, callLog, srvSends,
                 listeners, mutex_, postHandles>>

\* RemoteDramStorage::Remove called on the map of the server process
\* (UcxManager::GetStorage().Remove(key)).
StorageRemove(key) ==
  /\ driver[Srv] = "server"
  /\ LET r == Remove(storage, key) IN
       /\ storage' = r.map
       /\ storageLog' = Append(storageLog, LogEntry("Remove", key, <<>>, r.ret))
  /\ UNCHANGED <<mgrVars, driver, netVars, taskVars, ops, issued, localWrites,
                 crafted, callLog, srvSends, resVars>>

(***************************************************************************)
(* Messages that this driver's code did not build                          *)
(***************************************************************************)
\* The request_id field of the crafted messages: no RPC of the model has it.
CraftedId == 7

\* A checksum field that is the checksum of none of the payloads below.
BadChecksum == <<0, 2>>

\* A well-formed WriteRequest of key <<2>> and value <<5>>, and a well-formed
\* ReadRequest of key <<1>>.
GoodWrite ==
  InitializeMessageHeader(WRITE_REQUEST, 1, 1, CraftedId, <<2, 5>>,
                          UCX_TAG_WRITE_REQUEST)
GoodRead ==
  InitializeMessageHeader(READ_REQUEST, 1, 0, CraftedId, <<1>>,
                          UCX_TAG_READ_REQUEST)

\* Requests with one thing wrong: the magic number, the type, a length field
\* that claims more than arrived, the checksum of a WriteRequest, the
\* checksum of a ReadRequest, fewer bytes than a header.
MalformedRequests ==
  {[GoodWrite EXCEPT !.magic_number = Zero32],
   [GoodWrite EXCEPT !.type = 9],
   [GoodWrite EXCEPT !.value_length = 2],
   [GoodWrite EXCEPT !.checksum = BadChecksum],
   [GoodRead EXCEPT !.checksum = BadChecksum],
   [GoodWrite EXCEPT !.payload = <<>>, !.length = SizeofMessageHeader - 1]}

\* A well-formed ReadResponse carrying the value <<5>>.
GoodValue ==
  Message(MESSAGE_MAGIC_NUMBER, READ_RESPONSE, 0, 1, CraftedId,
          CalculateChecksum(<<5>>), 0, <<5>>, UCX_TAG_READ_RESPONSE,
          SizeofResponse + 1)

\* A response of fewer bytes than a response header.
ShortResponse ==
  [GoodValue EXCEPT !.payload = <<>>, !.length = SizeofResponse - 1]

\* Responses with one thing wrong: a value_length over the sanity limit, a
\* value_length that claims more than arrived, the magic number, the
\* checksum, fewer bytes than a response header.
CraftedResponses ==
  {[GoodValue EXCEPT !.value_length = MaxValueLength + 1],
   [GoodValue EXCEPT !.value_length = 2],
   [GoodValue EXCEPT !.magic_number = Zero32],
   [GoodValue EXCEPT !.checksum = BadChecksum],
   ShortResponse}

\* The server's receives are posted with tag 0 and mask 0: whatever arrives
\* on the connection of client c completes one of them.
PeerSendsRequest(c, m) ==
  /\ driver[c] = "client"
  /\ c2s' = [c2s EXCEPT ![c] = Append(@, m)]
  /\ crafted' = Append(crafted, m)
  /\ UNCHANGED <<mgrVars, storage, driver, connReq, accepted, s2c, srvPosted,
                 cliPosted, sends, taskVars, ops, issued, localWrites,
                 storageLog, callLog, srvSends, resVars>>

\* The client's receives match on the tag group only: whatever arrives with
\* a response tag completes the first posted receive of that group.
PeerSendsResponse(c, m) ==
  /\ driver[c] = "client"
  /\ s2c' = [s2c EXCEPT ![c] = Append(@, m)]
  /\ crafted' = Append(crafted, m)
  /\ UNCHANGED <<mgrVars, storage, driver, connReq, accepted, c2s, srvPosted,
                 cliPosted, sends, taskVars, ops, issued, localWrites,
                 storageLog, callLog, srvSends, resVars>>

(***************************************************************************)
(* Specifications                                                          *)
(***************************************************************************)
\* The client application may issue one more RPC of this kind.
MayIssue(c, kind, maxKind, maxOps) ==
  /\ Issued(c, kind) < maxKind
  /\ Len(issued[c]) < maxOps

\* One client and the server; every outcome of a send; either process may
\* shut its manager down at any time.
Next ==
  \/ DoOpenServer
  \/ DoOpenClient(1)
  \/ UcxListenerCallback(1)
  \/ RegisterClientEndpoint(1)
  \/ \E key \in {<<1>>}, value \in Values, how \in SendOutcomes :
       MayIssue(1, "W", MaxWrites, MaxOps) /\ WriteRemote(1, key, value, how)
  \/ \E key \in {<<1>>}, how \in SendOutcomes :
       MayIssue(1, "R", MaxReads, MaxOps) /\ ReadRemote(1, key, how)
  \/ \E s \in sends[1] : SendCallback(1, s)
  \/ ClientReceive(1)
  \/ \E t \in complTasks[1] : CompleteTask(1, t)
  \/ ServerReceiveCallback(1)
  \/ PostServerReceive
  \/ \E t \in respTasks : SendResponse(t)
  \/ \E p \in {1, Srv} : Shutdown(p)

Spec == Init /\ [][Next]_vars

\* The server process fills its map through its own server-mode driver while
\* one client reads; every send completes at once and no one shuts down.
NextLocal ==
  \/ DoOpenServer
  \/ DoOpenClient(1)
  \/ UcxListenerCallback(1)
  \/ RegisterClientEndpoint(1)
  \/ \E key \in Keys, value \in Values :
       localWrites < MaxLocalWrites /\ WriteLocal(key, value)
  \/ \E key \in Keys : MayIssue(1, "R", MaxReads, MaxOps) /\ ReadRemote(1, key, "imm")
  \/ ClientReceive(1)
  \/ \E t \in complTasks[1] : CompleteTask(1, t)
  \/ ServerReceiveCallback(1)
  \/ PostServerReceive
  \/ \E t \in respTasks : SendResponse(t)

SpecLocal == Init /\ [][NextLocal]_vars

\* The server knows the endpoint of client c.
Registered(c) ==
  \E i \in 1..Len(client_endpoints[Srv]) : client_endpoints[Srv][i] = c

\* Two clients connect to the server; the first issues RPCs once the server
\* has registered its endpoint.  The transport delivers every message and no
\* one shuts down.  The server is started; the progress threads keep polling
\* and every detached thread gets to run.
\* What the RPCs of the first client make the system do: the steps of the
\* server's start, of the progress threads and of the detached threads.
System ==
  \/ DoOpenServer
  \/ \E c \in Clients : UcxListenerCallback(c)
  \/ \E c \in Clients : RegisterClientEndpoint(c)
  \/ \E s \in sends[1] : SendCallback(1, s)
  \/ \E c \in Clients : ClientReceive(c)
  \/ \E t \in complTasks[1] : CompleteTask(1, t)
  \/ \E c \in Clients : ServerReceiveCallback(c)
  \/ PostServerReceive
  \/ \E t \in respTasks : SendResponse(t)

NextLive ==
  \/ \E c \in Clients : DoOpenClient(c)
  \/ \E value \in Values, how \in {"imm", "async"} :
       /\ MayIssue(1, "W", MaxWrites, MaxLiveOps) /\ Registered(1)
       /\ WriteRemote(1, <<1>>, value, how)
  \/ \E how \in {"imm", "async"} :
       /\ MayIssue(1, "R", MaxReads, MaxLiveOps) /\ Registered(1)
       /\ ReadRemote(1, <<1>>, how)
  \/ System

\* Every step of System consumes a connection request, a message, a send or
\* a thread, so a behaviour takes finitely many of them: weak fairness of
\* System says that the behaviour does not stop while one of them is enabled.
LiveSpec == Init /\ [][NextLive]_vars /\ WF_vars(System)

\* Values of two bytes, so that a mixture of two of them is none of them.
WideValues == {<<5, 6>>, <<7, 8>>}

\* Two clients, each writing the same key once, at any time; every send
\* completes at once and no one shuts down.
NextTwo ==
  \/ DoOpenServer
  \/ \E c \in Clients : DoOpenClient(c)
  \/ \E c \in Clients : UcxListenerCallback(c)
  \/ \E c \in Clients : RegisterClientEndpoint(c)
  \/ \E c \in Clients, value \in WideValues :
       MayIssue(c, "W", MaxWrites, MaxWrites) /\ WriteRemote(c, <<1>>, value, "imm")
  \/ \E c \in Clients : ClientReceive(c)
  \/ \E c \in Clients : \E t \in complTasks[c] : CompleteTask(c, t)
  \/ \E c \in Clients : ServerReceiveCallback(c)
  \/ PostServerReceive
  \/ \E t \in respTasks : SendResponse(t)

SpecTwo == Init /\ [][NextTwo]_vars

\* One client writes a key, writes it again and reads it; every send
\* completes at once, so that each write's future is ready when the call
\* returns, and no one shuts down.
NextSeq ==
  \/ DoOpenServer
  \/ DoOpenClient(1)
  \/ UcxListenerCallback(1)
  \/ RegisterClientEndpoint(1)
  \/ \E value \in Values :
       /\ Issued(1, "W") < MaxSeqWrites
       /\ Issued(1, "R") = 0
       /\ WriteRemote(1, <<1>>, value, "imm")
  \/ /\ Issued(1, "W") = MaxSeqWrites
     /\ Issued(1, "R") = 0
     /\ ReadRemote(1, <<1>>, "imm")
  \/ ClientReceive(1)
  \/ \E t \in complTasks[1] : CompleteTask(1, t)
  \/ ServerReceiveCallback(1)
  \/ PostServerReceive
  \/ \E t \in respTasks : SendResponse(t)

SpecSeq == Init /\ [][NextSeq]_vars

\* The process that owns the map stores and removes keys directly.
NextStorage ==
  \/ DoOpenServer
  \/ \E key \in Keys, value \in Values :
       Len(storageLog) < MaxStorageOps /\ WriteLocal(key, value)
  \/ \E key \in Keys :
       Len(storageLog) < MaxStorageOps /\ StorageRemove(key)

SpecStorage == Init /\ [][NextStorage]_vars

\* One client and the server, and a peer that puts crafted messages on the
\* client's connection, in either direction; no one shuts down.
NextWire ==
  \/ DoOpenServer
  \/ DoOpenClient(1)
  \/ UcxListenerCallback(1)
  \/ RegisterClientEndpoint(1)
  \/ \E value \in Values, how \in {"imm", "async"} :
       MayIssue(1, "W", MaxWrites, MaxWireOps) /\ WriteRemote(1, <<1>>, value, how)
  \/ \E how \in {"imm", "async"} :
       MayIssue(1, "R", MaxReads, MaxWireOps) /\ ReadRemote(1, <<1>>, how)
  \/ \E m \in MalformedRequests :
       Len(crafted) < MaxCrafted /\ PeerSendsRequest(1, m)
  \/ \E m \in CraftedResponses :
       Len(crafted) < MaxCrafted /\ PeerSendsResponse(1, m)
  \/ \E s \in sends[1] : SendCallback(1, s)
  \/ ClientReceive(1)
  \/ \E t \in complTasks[1] : CompleteTask(1, t)
  \/ ServerReceiveCallback(1)
  \/ PostServerReceive
  \/ \E t \in respTasks : SendResponse(t)

SpecWire == Init /\ [][NextWire]_vars

\* Byte strings of up to MaxFrameLen bytes, the empty one included.
FrameBytes == {0, 5, 255}
FrameStrings == UNION {[1..n -> FrameBytes] : n \in 0..MaxFrameLen}

\* One client frames one request, a write or a read, of any such key and
\* value, and the server decodes it; every send completes at once and no one
\* shuts down.
NextFrame ==
  \/ DoOpenServer
  \/ DoOpenClient(1)
  \/ UcxListenerCallback(1)
  \/ RegisterClientEndpoint(1)
  \/ \E key \in FrameStrings, value \in FrameStrings :
       Len(issued[1]) = 0 /\ WriteRemote(1, key, value, "imm")
  \/ \E key \in FrameStrings :
       Len(issued[1]) = 0 /\ ReadRemote(1, key, "imm")
  \/ ClientReceive(1)
  \/ \E t \in complTasks[1] : CompleteTask(1, t)
  \/ ServerReceiveCallback(1)
  \/ PostServerReceive
  \/ \E t \in respTasks : SendResponse(t)

SpecFrame == Init /\ [][NextFrame]_vars

\* One client reads while everything that can fail does: the send, the
\* posting of the response receive, the receive itself; a peer may put a
\* response that is too short on the connection and the client may shut its
\* manager down.
NextRead ==
  \/ DoOpenServer
  \/ DoOpenClient(1)
  \/ UcxListenerCallback(1)
  \/ RegisterClientEndpoint(1)
  \/ \E how \in ReadOutcomes :
       MayIssue(1, "R", MaxReads, MaxOps) /\ ReadRemote(1, <<1>>, how)
  \/ Len(crafted) < MaxCrafted /\ PeerSendsResponse(1, ShortResponse)
  \/ \E s \in sends[1] : SendCallback(1, s)
  \/ ClientReceive(1)
  \/ \E j \in 1..Len(cliPosted[1]) : ClientReceiveError(1, j)
  \/ \E t \in complTasks[1] : CompleteTask(1, t)
  \/ ServerReceiveCallback(1)
  \/ PostServerReceive
  \/ \E t \in respTasks : SendResponse(t)
  \/ Shutdown(1)

SpecRead == Init /\ [][NextRead]_vars

\* One client writes and reads a key; each response send of the server
\* either completes at once or stays in progress until the progress thread
\* completes it.
NextBuf ==
  \/ DoOpenServer
  \/ DoOpenClient(1)
  \/ UcxListenerCallback(1)
  \/ RegisterClientEndpoint(1)
  \/ \E value \in Values :
       MayIssue(1, "W", MaxWrites, MaxOps) /\ WriteRemote(1, <<1>>, value, "imm")
  \/ MayIssue(1, "R", MaxReads, MaxOps) /\ ReadRemote(1, <<1>>, "imm")
  \/ ClientReceive(1)
  \/ \E t \in complTasks[1] : CompleteTask(1, t)
  \/ ServerReceiveCallback(1)
  \/ PostServerReceive
  \/ \E t \in respTasks : SendResponse(t)
  \/ \E t \in respTasks : SendResponseInProgress(t)
  \/ \E s \in srvSends : ServerSendCompletes(s)

SpecBuf == Init /\ [][NextBuf]_vars

\* A well-formed WriteResponse.
GoodWriteResponse ==
  Message(MESSAGE_MAGIC_NUMBER, WRITE_RESPONSE, 0, 0, CraftedId, Zero32, 0,
          <<>>, UCX_TAG_WRITE_RESPONSE, SizeofResponse)

\* One well-formed message of each variant, each with the tag of its variant.
TaggedMessages == {GoodWrite, GoodRead, GoodWriteResponse, GoodValue}

\* A client with posted response receives is sent a message carrying each of
\* the four tags; the transport applies its match rule.
NextTag ==
  \/ DoOpenClient(1)
  \/ \E key \in Keys, value \in Values :
       MayIssue(1, "W", MaxWrites, MaxOps) /\ WriteRemote(1, key, value, "imm")
  \/ \E key \in Keys :
       MayIssue(1, "R", MaxReads, MaxOps) /\ ReadRemote(1, key, "imm")
  \/ \E m \in TaggedMessages :
       Len(crafted) < MaxCrafted /\ PeerSendsResponse(1, m)
  \/ ClientReceive(1)
  \/ \E t \in complTasks[1] : CompleteTask(1, t)

SpecTag == Init /\ [][NextTag]_vars

\* Entry points called with every argument and in every manager state: DoOpen
\* with each combination of the two addresses, Write with and without a
\* value, CreateListener and CreateClientEndpoint before DoOpen, after it and
\* after Shutdown.
RECURSIVE CallCount(_)
CallCount(S) ==
  IF S = {} THEN 0
  ELSE LET p == CHOOSE q \in S : TRUE IN Len(callLog[p]) + CallCount(S \ {p})

NextCalls ==
  \/ \E p \in Procs, listen_addr \in BOOLEAN, remote_addr \in BOOLEAN :
       CallCount(Procs) < MaxCalls /\ DoOpen(p, listen_addr, remote_addr)
  \/ \E c \in Clients : UcxListenerCallback(c)
  \/ \E c \in Clients : RegisterClientEndpoint(c)
  \/ \E p \in Procs, value \in {NullValue, SomeValue(<<5>>)} :
       CallCount(Procs) < MaxCalls /\ Write(p, <<1>>, value, "imm")
  \/ \E p \in Procs : CallCount(Procs) < MaxCalls /\ CreateListener(p)
  \/ \E p \in Procs : CallCount(Procs) < MaxCalls /\ CreateClientEndpoint(p)
  \/ \E p \in Procs : Shutdown(p)

SpecCalls == Init /\ [][NextCalls]_vars

\* The managers of the server and of one client are opened, shut down and
\* initialized again in any order; a server-mode driver may be opened again
\* on a running manager, which creates another listener; a progress thread
\* that was told to stop returns when it next wakes.
NextLife ==
  \/ DoOpenServer
  \/ DoOpenClient(1)
  \/ \E p \in {1, Srv} : CallCount(Procs) < MaxCalls /\ InitializeCall(p)
  \/ /\ CallCount(Procs) < MaxCalls
     /\ driver[Srv] = "server"
     /\ initialized[Srv]
     /\ CreateListener(Srv)
  \/ UcxListenerCallback(1)
  \/ RegisterClientEndpoint(1)
  \/ \E p \in {1, Srv} : Shutdown(p)
  \/ \E p \in {1, Srv} : ProgressThreadExits(p)

SpecLife == Init /\ [][NextLife]_vars

\* The server process reads and writes its own map through its server-mode
\* driver, as the self-tests do.
NextSelf ==
  \/ DoOpenServer
  \/ \E key \in Keys, value \in Values :
       CallCount(Procs) < MaxCalls /\ Write(Srv, key, SomeValue(value), "imm")
  \/ \E key \in Keys : CallCount(Procs) < MaxCalls /\ Read(Srv, key, "imm")

SpecSelf == Init /\ [][NextSelf]_vars

\* One client and the server, opened once each, with the two halves of
\* PostServerReceive as steps of their own, so that Shutdown of the server
\* may run between them.
NextPost ==
  \/ driver[Srv] = "none" /\ DoOpenServer
  \/ driver[1] = "none" /\ DoOpenClient(1)
  \/ UcxListenerCallback(1)
  \/ RegisterClientEndpoint(1)
  \/ \E key \in {<<1>>}, value \in Values :
       MayIssue(1, "W", MaxWrites, MaxOps) /\ WriteRemote(1, key, value, "imm")
  \/ \E key \in {<<1>>} :
       MayIssue(1, "R", MaxReads, MaxOps) /\ ReadRemote(1, key, "imm")
  \/ ClientReceive(1)
  \/ \E t \in complTasks[1] : CompleteTask(1, t)
  \/ ServerReceiveCallback(1)
  \/ PostServerReceiveCopiesHandle
  \/ PostServerReceiveUsesHandle
  \/ \E t \in respTasks : SendResponse(t)
  \/ Shutdown(Srv)

SpecPost == Init /\ [][NextPost]_vars

\* One client and the server, with the manager mutex of the client: what
\* locks it (the client's calls, its progress thread running a callback, its
\* completing threads, Shutdown) runs only while no thread holds it for
\* good, and the futures of the client may have continuations that issue a
\* further call.
NextLock ==
  \/ driver[Srv] = "none" /\ DoOpenServer
  \/ driver[1] = "none" /\ DoOpenClient(1)
  \/ UcxListenerCallback(1)
  \/ RegisterClientEndpoint(1)
  \/ \E key \in {<<1>>}, value \in Values :
       /\ MutexFree(1)
       /\ MayIssue(1, "W", MaxWrites, MaxOps)
       /\ WriteRemote(1, key, value, "imm")
  \/ \E key \in {<<1>>} :
       /\ MutexFree(1)
       /\ MayIssue(1, "R", MaxReads, MaxOps)
       /\ ReadRemote(1, key, "imm")
  \/ MutexFree(1) /\ ClientReceive(1)
  \/ \E t \in complTasks[1] : MutexFree(1) /\ CompleteTask(1, t)
  \/ \E t \in complTasks[1] : CompleteTaskReissues(1, t)
  \/ ServerReceiveCallback(1)
  \/ PostServerReceive
  \/ \E t \in respTasks : SendResponse(t)
  \/ MutexFree(1) /\ Shutdown(1)
  \/ ShutdownReissues(1)

SpecLock == Init /\ [][NextLock]_vars

(***************************************************************************)
(* Properties                                                              *)
(***************************************************************************)
\* The RPCs of kind `kind` that process p issued.
OpsOf(p, kind) == {id \in DOMAIN ops[p] : ops[p][id].kind = kind}

\* The transport accepted every request of client c for delivery.
Reliable(c) == \A id \in DOMAIN ops[c] : ops[c][id].mode \in {"imm", "async"}

\* No one but the write that a read of client c took its expectation from
\* writes the key: no other client, no server-mode write, no later write of c.
SoleWriter(c, id) ==
  /\ localWrites = 0
  /\ \A d \in Clients \ {c} : \A w \in OpsOf(d, "W") : ops[d][w].key # ops[c][id].key
  /\ \A w \in OpsOf(c, "W") : ops[c][w].key = ops[c][id].key => w < id

\* C1: read-your-writes on one client endpoint: a Read(K) issued after the
\* client's Write(K, V) resolved OK, with no other writer of K, is answered
\* Value(V).
C1_ReadYourWrites ==
  \A c \in Clients : \A id \in OpsOf(c, "R") :
    (/\ ops[c][id].expect.has /\ ops[c][id].by = "recv"
     /\ SoleWriter(c, id) /\ Reliable(c))
      => ops[c][id].fut = ValueResult(ops[c][id].expect.val)

\* C2: a Write whose send is asynchronous has an OK future only once the
\* server has stored the pair and the client has received the WriteResponse:
\* the completion of the send does not resolve it.
C2_WriteOkOnlyAfterResponse ==
  \A c \in Clients : \A id \in OpsOf(c, "W") :
    (ops[c][id].mode \in {"async", "asyncfail"} /\ ops[c][id].fut = OkStatus)
      => /\ ops[c][id].by = "recv"
         /\ ops[c][id].key \in DOMAIN storage

\* C3: a Read resolved by a ReadResponse is resolved by the response that
\* echoes the request id the Read registered.
C3_ReadMatchedByEchoedId ==
  \A c \in Clients : \A id \in OpsOf(c, "R") :
    (ops[c][id].by = "recv" /\ Reliable(c)) => ops[c][id].echo = id

\* C4: the Read of a key that was never written, answered by a response, is
\* Missing.
C4_NeverWrittenIsMissing ==
  \A c \in Clients : \A id \in OpsOf(c, "R") :
    (/\ ops[c][id].by = "recv" /\ Reliable(c)
     /\ ops[c][id].key \notin DOMAIN storage)
      => ops[c][id].fut = Missing

\* C5: a key written with an empty value exists: the Read of it that its own
\* response answers is Value with an empty value, not Missing.
C5_EmptyValueIsValue ==
  \A c \in Clients : \A id \in OpsOf(c, "R") :
    (/\ ops[c][id].expect = [has |-> TRUE, val |-> <<>>]
     /\ ops[c][id].by = "recv" /\ ops[c][id].echo = id
     /\ SoleWriter(c, id) /\ Reliable(c))
      => ops[c][id].fut.st = "Value"

\* C6: an entry is in a pending table from the posting of its request until
\* its promise is resolved; a promise is resolved at most once, and a
\* completion for an id no longer in its table changes nothing.
C6_ResolvedExactlyOnce ==
  \A p \in Procs :
    /\ pending_write_operations[p] \subseteq OpsOf(p, "W")
    /\ pending_read_operations[p] \subseteq OpsOf(p, "R")
    /\ \A id \in DOMAIN ops[p] :
         /\ ops[p][id].nres <= 1
         /\ (ops[p][id].nres = 0) = (ops[p][id].fut = Pending)
         /\ (ops[p][id].fut = Pending) =
              (id \in pending_write_operations[p] \cup pending_read_operations[p])

\* A write that the completion of its send resolved, after which the
\* completion of its response receive ran as well.
C6_Witness ==
  \E c \in Clients : \E id \in OpsOf(c, "W") :
    /\ ops[c][id].fut = OkStatus /\ ops[c][id].by = "send"
    /\ initialized[c]
    /\ complTasks[c] = {}
    /\ \A i \in 1..Len(cliPosted[c]) : cliPosted[c][i].request_id # id

\* C7: the request ids of a process start at 1, each is greater than every
\* id generated before it, and no id is in both pending tables.
C7_RequestIdsIncrease ==
  \A p \in Procs :
    /\ Len(issued[p]) >= 1 => issued[p][1].id = 1
    /\ \A i, j \in 1..Len(issued[p]) : i < j => issued[p][i].id < issued[p][j].id
    /\ \A i \in 1..Len(issued[p]) : issued[p][i].id < next_request_id[p]
    /\ pending_write_operations[p] \cap pending_read_operations[p] = {}
    /\ Cardinality(DOMAIN ops[p]) = Len(issued[p])

\* A write and a read of one client pending at the same time.
C7_Witness ==
  \E c \in Clients :
    /\ pending_write_operations[c] # {}
    /\ pending_read_operations[c] # {}

\* C8: Shutdown resolves every pending write Cancelled and every pending read
\* Missing and empties both tables: after it no promise registered before is
\* unresolved.
C8_ShutdownResolvesPending ==
  \A p \in Procs :
    /\ \A id \in DOMAIN ops[p] :
         ops[p][id].by = "shutdown" =>
           ops[p][id].fut = IF ops[p][id].kind = "W" THEN CancelledError ELSE Missing
    /\ (driver[p] # "none" /\ ~initialized[p]) =>
         /\ pending_write_operations[p] = {}
         /\ pending_read_operations[p] = {}
         /\ \A id \in DOMAIN ops[p] : ops[p][id].fut # Pending
    /\ initialized[p] =>
         LET s == ShutdownState(Mgr(p)) IN
           /\ s.pending_write_operations = {}
           /\ s.pending_read_operations = {}
           /\ \A id \in pending_write_operations[p] : s.promises[id].fut = CancelledError
           /\ \A id \in pending_read_operations[p] : s.promises[id].fut = Missing
           /\ \A id \in DOMAIN ops[p] :
                ops[p][id].fut # Pending => s.promises[id] = ops[p][id]

\* A client shut down while a write and a read were pending.
C8_Witness ==
  \E c \in Clients :
    /\ ~initialized[c]
    /\ \E w \in OpsOf(c, "W") : ops[c][w].by = "shutdown"
    /\ \E r \in OpsOf(c, "R") : ops[c][r].by = "shutdown"

\* C9: Shutdown is idempotent: on a manager that is not initialized it changes
\* nothing, so a second Shutdown leaves what the first one left.
C9_ShutdownIdempotent ==
  \A p \in Procs :
    LET s == ShutdownState(Mgr(p)) IN
      /\ ShutdownState(s) = s
      /\ ~initialized[p] => s = Mgr(p)

\* A server that was shut down and whose endpoint list is no longer empty: a
\* registration thread ran after the Shutdown.
C9_Witness ==
  /\ driver[Srv] = "server"
  /\ ~initialized[Srv]
  /\ client_endpoints[Srv] # <<>>

\* C10: without any Shutdown, and with a transport that delivers every
\* message, the future of every Read and Write RPC is eventually resolved.
C10_EveryRpcResolved ==
  \A c \in Clients : \A id \in 1..MaxLiveOps :
    (id \in DOMAIN ops[c]) ~> (id \in DOMAIN ops[c] /\ ops[c][id].fut # Pending)

\* The request of RPC id of client c is no longer in flight to the server.
Handled(c, id) ==
  /\ id \in DOMAIN ops[c]
  /\ ops[c][id].mode \in {"imm", "async"}
  /\ \A s \in sends[c] : s.id # id
  /\ \A i \in 1..Len(c2s[c]) : c2s[c][i].request_id # id

\* The last call of Store on key k in storageLog (0 if none).
LastStore(k) ==
  LET is == {i \in 1..Len(storageLog) :
               storageLog[i].op = "Store" /\ storageLog[i].key = k}
  IN IF is = {} THEN 0 ELSE CHOOSE i \in is : \A j \in is : j <= i

\* The writes of key k, as <<client, id>>, whose request the server handled.
HandledWrites(k) ==
  {cw \in Clients \X UNION {DOMAIN ops[c] : c \in Clients} :
     /\ cw[2] \in OpsOf(cw[1], "W")
     /\ ops[cw[1]][cw[2]].key = k
     /\ Handled(cw[1], cw[2])}

\* C11: concurrent writes of two clients to one key never tear: once both
\* WriteRequests have been handled, the map holds for the key one of the two
\* written values in full, namely the one whose Store was serialized last.
\* (With more writes of the key handled: one of their values, the one stored
\* last; every handled write was stored once.)
C11_ConcurrentWritesNeverTear ==
  \A k \in Keys :
    /\ \A c \in Clients : \A w \in OpsOf(c, "W") :
         (ops[c][w].key = k /\ Handled(c, w)) => <<c, w>> \in HandledWrites(k)
    /\ Cardinality(HandledWrites(k)) =
         Cardinality({i \in 1..Len(storageLog) : storageLog[i].key = k})
    /\ HandledWrites(k) # {}
         => /\ Exists(storage, k)
            /\ LastStore(k) # 0
            /\ storage[k] = storageLog[LastStore(k)].value
            /\ \E cw \in HandledWrites(k) : storage[k] = ops[cw[1]][cw[2]].value

\* Both clients' writes of different values were handled, the first client's
\* Store being the later one.
C11_Witness ==
  /\ 1 \in DOMAIN ops[1] /\ 1 \in DOMAIN ops[2]
  /\ Handled(1, 1) /\ Handled(2, 1)
  /\ ops[1][1].value # ops[2][1].value
  /\ Len(storageLog) = 2
  /\ storageLog[1].value = ops[2][1].value
  /\ storage[<<1>>] = ops[1][1].value

\* The writes of client c to the key of its read r that were issued before r.
WritesBefore(c, r) ==
  {w \in OpsOf(c, "W") : w < r /\ ops[c][w].key = ops[c][r].key}

\* C12: Store overwrites unconditionally: after Store(K,V1) and then
\* Store(K,V2), Get(K) returns V2; and over the wire a Write of K=v1, after it
\* completed a Write of K=v2, and then a Read of K yield Value(v2).
C12_StoreOverwrites ==
  /\ \A k \in Keys, v1 \in Values, v2 \in Values :
       Get(Store(Store(storage, k, v1), k, v2), k) = [has_value |-> TRUE, value |-> v2]
  /\ \A c \in Clients : \A r \in OpsOf(c, "R") :
       (/\ Reliable(c)
        /\ SoleWriter(c, r)
        /\ Cardinality(WritesBefore(c, r)) >= 2
        /\ \A w \in WritesBefore(c, r) : ops[c][w].fut = OkStatus
        /\ ops[c][r].expect.has
        /\ ops[c][r].fut # Pending)
       => ops[c][r].fut = ValueResult(ops[c][r].expect.val)

\* The map that the calls of a log make of the empty map.
RECURSIVE ApplyLog(_)
ApplyLog(log) ==
  IF log = <<>> THEN <<>>
  ELSE LET e == log[Len(log)]
           before == ApplyLog(SubSeq(log, 1, Len(log) - 1))
       IN IF e.op = "Store" THEN Store(before, e.key, e.value)
          ELSE Remove(before, e.key).map

\* C13: writing the same (K,V) twice is idempotent on the server map: for
\* every prior map, the map after write(K,V);write(K,V) equals the map after
\* one write(K,V).
C13_SameWriteTwiceIsIdempotent ==
  /\ \A k \in Keys, v \in Values :
       Store(Store(storage, k, v), k, v) = Store(storage, k, v)
  /\ LET n == Len(storageLog) IN
       (/\ n >= 2
        /\ storageLog[n].op = "Store"
        /\ storageLog[n] = storageLog[n - 1])
       => storage = ApplyLog(SubSeq(storageLog, 1, n - 1))

\* A non-empty value was just written twice to a key of a map that held
\* another key.
C13_Witness ==
  LET n == Len(storageLog) IN
    /\ n >= 3
    /\ storageLog[n].op = "Store"
    /\ storageLog[n].value # <<>>
    /\ storageLog[n] = storageLog[n - 1]
    /\ storageLog[n - 2].key # storageLog[n].key
    /\ GetKeyCount(storage) = 2

\* The keys that the first n calls of storageLog stored and did not remove
\* afterwards.
LiveKeys(n) ==
  {k \in Keys :
     \E i \in 1..n :
       /\ storageLog[i].op = "Store" /\ storageLog[i].key = k
       /\ \A j \in (i + 1)..n :
            ~(storageLog[j].op = "Remove" /\ storageLog[j].key = k)}

\* C14: after any sequence of Store and Remove, GetKeyCount() is the number
\* of distinct keys stored and not removed since, and Remove(K) returns true
\* exactly when K was present.
C14_KeyCountAndRemove ==
  /\ GetKeyCount(storage) = Cardinality(LiveKeys(Len(storageLog)))
  /\ GetAllKeys(storage) = LiveKeys(Len(storageLog))
  /\ \A i \in 1..Len(storageLog) :
       storageLog[i].op = "Remove"
         => (storageLog[i].ret <=> storageLog[i].key \in LiveKeys(i - 1))

\* Keys were stored, one was removed (true) and removed again (false), one
\* is left.
C14_Witness ==
  /\ GetKeyCount(storage) = 1
  /\ \E i \in 1..Len(storageLog), j \in 1..Len(storageLog) :
       /\ i < j
       /\ storageLog[i].op = "Remove" /\ storageLog[i].ret
       /\ storageLog[j].op = "Remove" /\ ~storageLog[j].ret
       /\ storageLog[i].key = storageLog[j].key

\* C15: after the server's receive callback drops a malformed message while
\* the manager is not shutting down, a replacement receive is posted: the
\* receives posted, with those about to be posted, stay as many as before.
C15_DroppedMessageIsReplaced ==
  (ProgressRunning(Srv) /\ driver[Srv] = "server")
    => srvPosted + postTasks = num_preposted_receives

\* The server's receive callback takes the next message of connection c in
\* this step.
ServerTakes(c) == c2s[c] # <<>> /\ c2s'[c] = Tail(c2s[c])

\* The completing thread t of client c runs in this step.
ThreadRuns(c, t) ==
  t \in complTasks[c] /\ complTasks'[c] = complTasks[c] \ {t}

\* C16: a received message whose magic field is not the sentinel is discarded
\* by whichever receiver gets it: the server neither changes the map nor
\* emits a response, and a client response callback resolves no pending
\* promise from the contents of such a message.
C16_BadMagicIsDiscarded ==
  [][/\ \A c \in Clients :
          (ServerTakes(c) /\ Head(c2s[c]).magic_number # MESSAGE_MAGIC_NUMBER)
            => (storage' = storage /\ respTasks' = respTasks)
     /\ \A c \in Clients : \A t \in complTasks[c] :
          (/\ ThreadRuns(c, t)
           /\ t.src = "recv"
           /\ t.seen.magic_number # MESSAGE_MAGIC_NUMBER)
            => ops'[c] = ops[c]]_vars

\* The checksum field of m is non-zero and is not the checksum of the
\* key_length + value_length payload bytes that arrived.
ChecksumMismatch(m) ==
  /\ m.checksum # Zero32
  /\ m.key_length + m.value_length <= Len(m.payload)
  /\ CalculateChecksum(SubSeq(m.payload, 1, m.key_length + m.value_length))
       # m.checksum

\* C17: a received message with a non-zero checksum field is acted upon only
\* if the field equals the checksum of its payload, for every variant a
\* receiver handles (WriteRequest and ReadRequest on the server, responses
\* on the client): a mismatching message changes no map entry, draws no
\* response and resolves no promise.
C17_ChecksumMismatchIsDiscarded ==
  [][/\ \A c \in Clients :
          (ServerTakes(c) /\ ChecksumMismatch(Head(c2s[c])))
            => (storage' = storage /\ respTasks' = respTasks)
     /\ \A c \in Clients : \A t \in complTasks[c] :
          (/\ ThreadRuns(c, t)
           /\ t.src = "recv"
           /\ ChecksumMismatch(t.seen))
            => ops'[c] = ops[c]]_vars

\* C18: framing round trip: the header InitializeMessageHeader writes for a
\* key and a value passes VerifyMessageHeader on the full message, carries
\* the magic constant, decodes to the same type, key_length, value_length and
\* request_id, and its checksum is CalculateChecksum over key followed by
\* value; the server decodes exactly the key and value bytes the client
\* encoded.
C18_FramingRoundTrip ==
  \A c \in Clients :
    /\ \A i \in 1..Len(c2s[c]) :
         LET m == c2s[c][i]
             op == ops[c][m.request_id]
             isW == op.kind = "W"
             e == ServerHandle(m, m.length, c)
         IN /\ m.request_id \in DOMAIN ops[c]
            /\ issued[c][m.request_id].id = m.request_id
            /\ VerifyMessageHeader(m, m.length)
            /\ m.length = SizeofMessageHeader + Len(op.key) + Len(op.value)
            /\ m.magic_number = MESSAGE_MAGIC_NUMBER
            /\ m.type = (IF isW THEN WRITE_REQUEST ELSE READ_REQUEST)
            /\ m.key_length = Len(op.key)
            /\ m.value_length = Len(op.value)
            /\ m.checksum = CalculateChecksum(op.key \o op.value)
            /\ e.key = op.key
            /\ isW => (e.store /\ e.value = op.value)
            /\ e.resp # {}
    /\ \A w \in OpsOf(c, "W") :
         Handled(c, w) => Get(storage, ops[c][w].key) =
                            [has_value |-> TRUE, value |-> ops[c][w].value]

\* A write of a two-byte key and a two-byte value with a byte over 127 was
\* framed, verified and stored.
C18_Witness ==
  /\ 1 \in OpsOf(1, "W")
  /\ Handled(1, 1)
  /\ ops[1][1].key = <<255, 5>>
  /\ ops[1][1].value = <<0, 255>>
  /\ storage = (<<255, 5>> :> <<0, 255>>)

\* C19: a client-mode Read future never resolves with an error status: on
\* every failure path (immediate send error, failure to post the response
\* receive, a receive completed with an error or too short, shutdown) it
\* resolves Missing, with the no-value generation stamp.
C19_ReadNeverResolvesWithError ==
  \A c \in Clients :
    /\ \A r \in OpsOf(c, "R") :
         /\ ops[c][r].fut.st \in {"Pending", "Missing", "Value"}
         /\ ops[c][r].mode \in {"err", "nopost"} => ops[c][r].fut = Missing
         /\ ops[c][r].by \in {"post", "recverr", "shutdown"}
              => ops[c][r].fut = Missing
         /\ (ops[c][r].by = "recv" /\ ops[c][r].echo = CraftedId)
              => ops[c][r].fut = Missing
    /\ \A t \in complTasks[c] :
         (/\ t.kind = "r"
          /\ \/ t.src = "recverr"
             \/ t.src = "recv" /\ t.seen.length < SizeofResponse)
         => t.result = Missing

\* One Read was resolved from a response that was too short, another by the
\* shutdown of the manager.
C19_Witness ==
  \E r1 \in OpsOf(1, "R"), r2 \in OpsOf(1, "R") :
    /\ ops[1][r1].by = "recv" /\ ops[1][r1].echo = CraftedId
    /\ ops[1][r1].fut = Missing
    /\ ops[1][r2].by = "shutdown"
    /\ ops[1][r2].fut = Missing

\* The response m has status 0 and a value_length over the sanity limit or
\* over what arrived after the response header.
Overlong(m) ==
  /\ m.status_code = 0
  /\ \/ m.value_length > MaxValueLength
     \/ m.length < SizeofResponse + m.value_length

\* C20: a ReadResponse with status 0 whose value_length exceeds 1,000,000, or
\* whose received length is smaller than the response header plus
\* value_length, resolves the Read to Missing, and never to a Value built
\* from bytes beyond the received message.
C20_OverlongResponseIsMissing ==
  \A c \in Clients :
    /\ \A t \in complTasks[c] :
         (t.kind = "r" /\ t.src = "recv")
         => /\ Overlong(t.seen) => t.result = Missing
            /\ t.result.st = "Value"
                 => /\ SizeofResponse + t.seen.value_length <= t.seen.length
                    /\ t.seen.value_length <= Len(t.seen.payload)
                    /\ t.result.val = SubSeq(t.seen.payload, 1, t.seen.value_length)
    /\ \A r \in OpsOf(c, "R") :
         (/\ ops[c][r].by = "recv"
          /\ ops[c][r].echo = CraftedId
          /\ \A i \in 1..Len(crafted) :
               crafted[i].type = READ_RESPONSE /\ Overlong(crafted[i]))
         => ops[c][r].fut = Missing

\* A Read was resolved Missing from a response that claimed a value of more
\* than 1,000,000 bytes.
C20_Witness ==
  \E r \in OpsOf(1, "R") :
    /\ ops[1][r].by = "recv"
    /\ ops[1][r].echo = CraftedId
    /\ crafted # <<>>
    /\ crafted[1].status_code = 0
    /\ crafted[1].value_length > MaxValueLength
    /\ ops[1][r].fut = Missing

(***************************************************************************)
(* Entry points: DoOpen, Write, CreateListener, CreateClientEndpoint       *)
(***************************************************************************)

\* The call that a step appended to the log of process p.
Called(p, api) ==
  /\ Len(callLog'[p]) = Len(callLog[p]) + 1
  /\ callLog'[p][Len(callLog'[p])].api = api
LastCall(p) == callLog'[p][Len(callLog'[p])]

\* C21: DoOpen with both or with neither of listen_addr and remote_addr
\* returns InvalidArgument and leaves the manager uninitialized as it was, with
\* no listener, endpoint, receive or connection request created; with exactly
\* one of them set it succeeds and the driver is in server mode iff
\* listen_addr is the one set.
C21_DoOpenValidatesAddresses ==
  [][\A p \in Procs :
       Called(p, "DoOpen") =>
         LET listen_addr == LastCall(p).args[1]
             remote_addr == LastCall(p).args[2]
         IN IF listen_addr = remote_addr
              THEN /\ LastCall(p).status = "InvalidArgument"
                   /\ ~initialized[p] /\ ~initialized'[p]
                   /\ UNCHANGED <<mgrVars, netVars, taskVars, driver, storage>>
              ELSE /\ LastCall(p).status = "Ok"
                   /\ driver'[p] \in {"server", "client"}
                   /\ driver'[p] = "server" <=> listen_addr]_vars

\* DoOpen was rejected once with both addresses and once with neither, and
\* was accepted once with each single address.
C21_Witness ==
  /\ \E p \in Procs : \E i \in DOMAIN callLog[p] :
       callLog[p][i] = Call("DoOpen", <<TRUE, TRUE>>, "InvalidArgument")
  /\ \E p \in Procs : \E i \in DOMAIN callLog[p] :
       callLog[p][i] = Call("DoOpen", <<FALSE, FALSE>>, "InvalidArgument")
  /\ driver[Srv] = "server"
  /\ \E c \in Clients : driver[c] = "client"

\* C22: Write without a value returns InvalidArgument in server mode and in
\* client mode, and the call changes nothing: no request id is allocated, no
\* pending entry is registered, no receive is posted, no message is sent and
\* the map stays as it was.
C22_NullWriteIsRejected ==
  [][\A p \in Procs :
       (Called(p, "Write") /\ ~LastCall(p).args[2].has_value) =>
         /\ LastCall(p).status = "InvalidArgument"
         /\ UNCHANGED <<mgrVars, storage, driver, netVars, taskVars, ops,
                        issued, localWrites, storageLog>>]_vars

\* Write without a value was rejected by a driver in server mode and by a
\* driver in client mode.
C22_Witness ==
  /\ driver[Srv] = "server"
  /\ \E i \in DOMAIN callLog[Srv] :
       callLog[Srv][i] = Call("Write", <<(<<1>>), NullValue>>, "InvalidArgument")
  /\ \E c \in Clients :
       /\ driver[c] = "client"
       /\ \E i \in DOMAIN callLog[c] :
            callLog[c][i] = Call("Write", <<(<<1>>), NullValue>>, "InvalidArgument")

\* C23: CreateListener and CreateClientEndpoint called on a manager that is
\* not initialized, whether it never was or was shut down, return
\* FailedPrecondition and change no state of the manager: no listener, no
\* endpoint, no posted receive, no connection request.
C23_UninitializedManagerRejects ==
  [][\A p \in Procs :
       ((Called(p, "CreateListener") \/ Called(p, "CreateClientEndpoint"))
          /\ ~initialized[p]) =>
         /\ LastCall(p).status = "FailedPrecondition"
         /\ UNCHANGED <<mgrVars, storage, driver, netVars, taskVars>>]_vars

\* One manager rejected CreateClientEndpoint before it was ever initialized,
\* and one rejected CreateListener after it had been opened and shut down.
C23_Witness ==
  /\ \E p \in Procs :
       /\ callLog[p] # <<>>
       /\ callLog[p][1] = Call("CreateClientEndpoint", <<>>, "FailedPrecondition")
  /\ \E p \in Procs : \E i, j \in DOMAIN callLog[p] :
       /\ i < j
       /\ callLog[p][i].api = "DoOpen" /\ callLog[p][i].status = "Ok"
       /\ callLog[p][j] = Call("CreateListener", <<>>, "FailedPrecondition")

(***************************************************************************)
(* Send outcomes                                                           *)
(***************************************************************************)

\* The send of request id of client c has completed and the thread its
\* SendCallback spawned, if any, has run.
SendSettled(c, id) ==
  /\ \A s \in sends[c] : s.id # id
  /\ \A t \in complTasks[c] : ~(t.id = id /\ t.src = "send")

\* C24: once the failed send of a request has been dealt with, at post time
\* or by the send callback and its thread, and the manager is still running,
\* the promise of that request is resolved: a write with an Internal error, a
\* read with Missing.
C24_FailedSendResolvesPromise ==
  \A c \in Clients : \A id \in DOMAIN ops[c] :
    (/\ ops[c][id].mode \in {"err", "asyncfail"}
     /\ SendSettled(c, id)
     /\ initialized[c])
    => ops[c][id].fut = IF ops[c][id].kind = "W" THEN InternalError ELSE Missing

KeyOf(m) == SubSeq(m.payload, 1, m.key_length)
ValueOf(m) == SubSeq(m.payload, m.key_length + 1, m.key_length + m.value_length)

\* The response thread t runs in this step and sends on endpoint ep.
Emits(t, ep) ==
  /\ t \in respTasks
  /\ respTasks' = respTasks \ {t}
  /\ Len(s2c'[ep]) = Len(s2c[ep]) + 1
Emitted(ep) == s2c'[ep][Len(s2c'[ep])]

C27_ResponseGoesToLastRegistered ==
  [][\A t \in respTasks : \A ep \in Clients :
       Emits(t, ep) =>
         /\ client_endpoints[Srv] # <<>>
         /\ ep = client_endpoints[Srv][Len(client_endpoints[Srv])]]_vars

\* Two clients are registered, the one registered last has issued no request,
\* and a response was sent to it.
C27_Witness ==
  \E a \in Clients, b \in Clients :
    /\ a # b
    /\ client_endpoints[Srv] = <<a, b>>
    /\ issued[a] # <<>>
    /\ issued[b] = <<>>
    /\ s2c[b] # <<>>

\* The messages in flight, each emitted by a client or by the server.
InFlight ==
  UNION {{c2s[c][i] : i \in DOMAIN c2s[c]} : c \in Clients}
    \cup UNION {{s2c[c][i] : i \in DOMAIN s2c[c]} : c \in Clients}

\* C28: every emitted message, of each of the four variants, has the sentinel
\* in its magic field and, in its checksum field, either 0 or the checksum of
\* its payload.
C28_EmittedHeadersAreWellFormed ==
  \A m \in InFlight :
    /\ m.type \in {WRITE_REQUEST, READ_REQUEST, WRITE_RESPONSE, READ_RESPONSE}
    /\ m.magic_number = MESSAGE_MAGIC_NUMBER
    /\ m.checksum = Zero32 \/ m.checksum = CalculateChecksum(m.payload)

(***************************************************************************)
(* The server's posted receives                                            *)
(***************************************************************************)

C29_BufferOutlivesSend ==
  \A s \in srvSends : s.alive

(***************************************************************************)
(* Shutdown and the manager's resources                                    *)
(***************************************************************************)

\* The receives of process p that are posted and have not completed.
Outstanding(p) == IF p = Srv THEN srvPosted ELSE Len(cliPosted[p])

\* C31: while a manager runs, its list of active requests holds exactly the
\* receives that are posted and not yet completed, the server's receives and
\* a client's response receives alike, so that Shutdown cancels each of them
\* once and none whose callback has run.
C31_ActiveRequestsAreOutstanding ==
  \A p \in Procs : initialized[p] => active_requests[p] = Outstanding(p)

\* C32: under the match rule with mask 0xF000 a receive posted for
\* WriteResponse completes with WriteResponse-tagged messages only, and a
\* receive posted for ReadResponse with ReadResponse-tagged messages only:
\* neither takes a message of the other variant or a request-tagged message.
C32_ReceiveMatchesItsVariantOnly ==
  \A c \in Clients : \A t \in complTasks[c] :
    t.src = "recv" =>
      t.seen.tag = IF t.kind = "w" THEN UCX_TAG_WRITE_RESPONSE
                   ELSE UCX_TAG_READ_RESPONSE

\* C33: whatever the order of opens, Initialize and Shutdown calls, a
\* manager that is running has at most one progress thread.
C33_OneProgressThread ==
  \A p \in Procs :
    (initialized[p] /\ progress_task_running[p]) => progress_threads[p] <= 1

\* C36: every listener a server-mode open created is destroyed by Shutdown,
\* also when several were created before it: a manager that was shut down
\* has no listener handle left.
C36_ShutdownDestroysEveryListener ==
  \A p \in Procs : ~initialized[p] => listeners[p] = 0

(***************************************************************************)
(* Server mode                                                             *)
(***************************************************************************)

\* The Write calls of key k among the first n calls of process p.
WritesOfKey(p, k, n) ==
  {i \in 1..n : callLog[p][i].api = "Write" /\ callLog[p][i].args[1] = k}

\* C34: on a server-mode driver Write stores into the map of the process and
\* returns a ready future, Read returns a ready future and changes nothing,
\* and neither allocates a request id, registers a pending entry, posts a
\* receive or sends a message; a Read returns Value with the bytes of the
\* latest Write of its key on that driver, Missing if there was none.
C34_ServerModeIsLocal ==
  [][(driver[Srv] = "server" /\ callLog'[Srv] # callLog[Srv]) =>
       /\ UNCHANGED <<mgrVars, netVars, taskVars, ops, issued, srvSends>>
       /\ Called(Srv, "Write") =>
            /\ LastCall(Srv).status = "ReadyFuture"
            /\ Get(storage', LastCall(Srv).args[1]) = LastCall(Srv).args[2]
       /\ Called(Srv, "Read") =>
            /\ storage' = storage
            /\ LET k == LastCall(Srv).args[1]
                   w == WritesOfKey(Srv, k, Len(callLog[Srv]))
               IN IF w = {} THEN LastCall(Srv).status = Missing
                  ELSE LastCall(Srv).status =
                         ValueResult(callLog[Srv][CHOOSE i \in w :
                                       \A j \in w : j <= i].args[2].value)]_vars

\* The server-mode driver returned Value with an empty value it had written,
\* and Missing for a key it had not written.
C34_Witness ==
  /\ \E i \in DOMAIN callLog[Srv] :
       /\ callLog[Srv][i].api = "Read"
       /\ callLog[Srv][i].args = <<(<<1>>)>>
       /\ callLog[Srv][i].status = ValueResult(<<>>)
  /\ \E i \in DOMAIN callLog[Srv] :
       /\ callLog[Srv][i].api = "Read"
       /\ callLog[Srv][i].args = <<(<<2>>)>>
       /\ callLog[Srv][i].status = Missing

(***************************************************************************)
(* Completions for unknown request ids                                     *)
(***************************************************************************)

\* C35: CompletePendingOperation and CompletePendingReadOperation ignore a
\* request id that is not in their pending table: the thread that runs the
\* completion calls SetResult on no promise and leaves both pending tables,
\* the id counter and the map as they were.
C35_UnknownIdIsIgnored ==
  [][\A c \in Clients : \A t \in complTasks[c] :
       (/\ ThreadRuns(c, t)
        /\ t.id \notin (IF t.kind = "w" THEN pending_write_operations[c]
                                        ELSE pending_read_operations[c]))
         => UNCHANGED <<ops, pending_write_operations, pending_read_operations,
                        next_request_id, storage>>]_vars

\* The response to a write whose send had completed at once was received and
\* its completion, for an id no longer in the write table, has run and left
\* the promise with its single result, while the completion of a read whose
\* id was in the read table resolved that read.
C35_Witness ==
  /\ initialized[1]
  /\ complTasks[1] = {}
  /\ \E id \in OpsOf(1, "W") :
       /\ ops[1][id].mode = "imm"
       /\ ops[1][id].by = "post"
       /\ ops[1][id].nres = 1
       /\ id \notin pending_write_operations[1]
       /\ \A j \in DOMAIN cliPosted[1] : cliPosted[1][j].request_id # id
  /\ \E id \in OpsOf(1, "R") :
       /\ ops[1][id].by = "recv"
       /\ ops[1][id].nres = 1
       /\ id \notin pending_read_operations[1]

(***************************************************************************)
(* The worker after Shutdown                                               *)
(***************************************************************************)

\* C37: no transport primitive is invoked on a worker that Shutdown has
\* destroyed; in particular the thread a receive callback spawned to post a
\* replacement receive calls ucp_tag_recv_nbx, on the handle it copied under
\* the mutex, only while the server's worker exists.
C37_NoUseOfDestroyedWorker ==
  [][(postHandles # <<>> /\ postHandles' = Tail(postHandles)) => worker[Srv]]_vars

(***************************************************************************)
(* The manager mutex                                                       *)
(***************************************************************************)

\* C38: no thread waits for a manager mutex it holds: the promises that
\* CompletePendingOperation, CompletePendingReadOperation and Shutdown
\* resolve with the mutex held may have continuations that issue a new Read
\* or Write, and these do not deadlock.
C38_NoThreadWaitsForItself ==
  \A p \in Procs : mutex_[p].holder \notin mutex_[p].waiters

\* C39: the transport callbacks take no manager mutex on the thread that
\* runs them (the progress loop, or Shutdown in its drain iterations), every
\* follow-up that locks it running on a thread of its own; so a Shutdown
\* that holds the mutex never waits for it, and Shutdown returns.
C39_ShutdownNeverBlocksItself ==
  \A p \in Procs :
    ~(mutex_[p].holder = "Shutdown" /\ "Shutdown" \in mutex_[p].waiters)

(***************************************************************************)
(* One response for each handled request                                   *)
(***************************************************************************)

\* C40: every response thread that ServerReceiveCallback spawned for a
\* well-formed request emits its response on some connection when it runs,
\* also when it runs before RegisterClientEndpoint has recorded the reply
\* endpoint of the connection; no handled request stays unanswered.
C40_EveryHandledRequestIsAnswered ==
  [][\A t \in respTasks :
       (respTasks' = respTasks \ {t}) => \E ep \in Clients : Emits(t, ep)]_vars

====
